---- MODULE Spec2Model ----
(***************************************************************************)
(* The tool-calling / streaming orchestration of the chat service.         *)
(*                                                                         *)
(* One request is modelled from the moment chat_stream.gen starts          *)
(* (src/api/app.py) to the moment its SSE stream is closed.  gen is the    *)
(* consumer of the generator process_tool_calls                            *)
(* (src/chains/tool_calling_chat.py), which drives the Model Client        *)
(* stream and the tools.  The Model Client and the search provider are     *)
(* external: what they return (chunks, end of stream, an exception, a      *)
(* payload) is chosen nondeterministically from small sets.                *)
(*                                                                         *)
(* Specifications:                                                         *)
(*   Spec            one tool-calling run, from gen's start to its close   *)
(*   SpecDisconnect  the same run with a client that may disconnect        *)
(*   SpecConfig      chat_stream from the request to its response          *)
(*   SpecSessions    two requests side by side, with and without tools     *)
(*   SpecNormalize   to_langchain_messages on a list of raw records        *)
(*   SpecSearch      SerperSearchTool: __init__, then one call of _run     *)
(* Each specification moves its own variables and holds the others.        *)
(***************************************************************************)
EXTENDS Integers, Sequences, FiniteSets, TLC

VARIABLES
    pc,              \* position of gen / process_tool_calls
    variant,         \* arguments gen has for stream_func: "session" | "stateless"
    max_iterations,  \* parameter of process_tool_calls
    iteration,       \* loop variable of `for iteration in range(max_iterations)`
    messages,        \* the run's messages list
    final_chunk,     \* accumulator of the current stream (None before the first chunk)
    chunk,           \* loop variable of `for chunk in chain.stream(...)`
    pending,         \* value process_tool_calls has yielded and gen has not framed yet
    tc_index,        \* position of `for tool_call in response.tool_calls`
    events,          \* SSE frames gen has yielded to the client, in order
    nextId,          \* next tool-call id the Model Client hands out
    pulled,          \* chunks pulled from the Model Client in this run
    \* ---- history variables (observations, not program state) ----
    raised,          \* exception raised in this run ("none" when none)
    escaped,         \* an exception left gen uncaught
    invocations,     \* number of chain.stream(...) calls of the run
    phaseInput,      \* messages handed to the latest chain.stream(...) call
    phaseStart,      \* Len(events) when the latest chain.stream(...) call was made
    streamOpen,      \* the stream of the current phase has not ended yet
    fragsSeen,       \* tool-call fragments the current stream has delivered
    toolLog,         \* tool invocations of the run, in order
    \* ---- the client connection of the run ----
    connected,       \* the client is still connected
    cut,             \* what the run had done when the client disconnected
    \* ---- the request handler chat_stream, before gen exists ----
    yaml,            \* what config/config.yaml and .env supply
    environ,         \* os.environ, the LANGFUSE_* entries
    cfg,             \* AppConfig returned by load_config()
    http,            \* the response chat_stream has returned
    chain,           \* the chain chat_stream has built
    callbacks,       \* the callbacks chat_stream has built
    use_tools_query, \* the query parameter use_tools: << >> when absent
    req_use_tools,   \* the body field use_tools as sent: << >> when absent
    \* ---- to_langchain_messages, applied to a list of raw records ----
    raw,             \* the records handed to to_langchain_messages
    normalized,      \* what the call did: the list it returned, or the exception
    \* ---- SerperSearchTool: one tool object and one call of _run ----
    serper_env,      \* os.environ["SERPER_API_KEY"] ("" when unset or empty)
    api_key,         \* self._api_key
    kwargs,          \* names of the keyword arguments of the call
    num_results,     \* value of the keyword argument num_results, if given
    sent,            \* the request posted to serper.dev: its "num"
    reply,           \* what the network and serper.dev do with the request
    outcome,         \* what _run did: the value it returned, or the exception
    \* ---- several requests at a time ----
    req,             \* the requests: session_id and use_tools of each
    run,             \* per request: where chat_stream / gen / stream_text is, and its locals
    store,           \* _store of core/memory.py: session_id -> history
    envReaders,      \* requests that have read os.environ
    envWriters,      \* requests that have written os.environ
    \* ---- sse_encode, applied to one event ----
    sse_data,        \* the event handed to sse_encode
    sse_event,       \* the event name handed to sse_encode (None when omitted)
    frame,           \* the text sse_encode returned, character by character
    \* ---- CurrentTimeTool._run ----
    now,             \* the instant datetime.now() reads
    formatted_time,  \* the text _run returned, character by character
    \* ---- core/memory.py called by a client ----
    appended,        \* per session id, the messages added so far
    objects,         \* InMemoryChatMessageHistory objects created so far
    callers,         \* per thread, its place in get_session_history and
                     \* the history object it holds
    \* ---- upload_file and process_stream ----
    upload_cache,    \* app.state.upload_cache: file_id -> filename
    disk,            \* the files of temp_uploads, by file_id
    issued,          \* number of file ids upload_file has returned
    procs            \* per process request: where process_stream / gen /
                     \* file_processor_stream is, and the events sent

runVars == << pc, variant, max_iterations, iteration, messages, final_chunk,
              chunk, pending, tc_index, events, nextId, pulled, raised, escaped,
              invocations, phaseInput, phaseStart, streamOpen, fragsSeen,
              toolLog >>

linkVars == << connected, cut >>

confVars == << yaml, environ, cfg, http, chain, callbacks, use_tools_query,
              req_use_tools >>

normVars == << raw, normalized >>

searchVars == << serper_env, api_key, kwargs, num_results, sent, reply, outcome >>

sseVars == << sse_data, sse_event, frame >>

timeVars == << now, formatted_time >>

memVars == << appended, objects, callers >>

fileVars == << upload_cache, disk, issued, procs >>

utilVars == << sseVars, timeVars, memVars, fileVars >>

\* The variables of the functions that are modelled on their own.
pureVars == << normVars, searchVars, utilVars >>

sessVars == << req, run, store, envReaders, envWriters >>

\* Everything that is not a variable of the run itself.
others == << linkVars, confVars, pureVars, sessVars >>

vars == << runVars, others >>

(***************************************************************************)
(* Bounds of the model.                                                    *)
(***************************************************************************)
MaxIter == 3      \* max_iterations ranges over 0..MaxIter
MaxChunks == 3    \* chunks the Model Client delivers in one run
MaxCalls == 2     \* tool calls in one accumulated response

(***************************************************************************)
(* Program constants.                                                      *)
(***************************************************************************)
Warning == "max_iterations_warning"
SEARCH == "serper_search"
TIME == "current_time"
BOGUS == "bogus_tool"
ToolNames == {SEARCH, TIME, BOGUS}
Texts == {"a", "b"}
ArgKeys == {"query", "region"}
SearchParams == {"query", "num_results"}

(***************************************************************************)
(* Chunks of the Model Client stream and their accumulation.               *)
(***************************************************************************)
NoFrag == [index |-> 0, name |-> "", id |-> 0, args |-> {}]

NoneChunk == [isNone |-> TRUE, content |-> "", tool_calls |-> << >>]

NoChunk == [content |-> "", frag |-> NoFrag]

\* Fragments the stream can deliver next: a new call (the next position) or
\* one more argument of a call already opened.
Frags(n, id) ==
    { [index |-> n + 1, name |-> nm, id |-> id, args |-> {}] :
          nm \in IF n < MaxCalls THEN ToolNames ELSE {} }
    \cup { [index |-> i, name |-> "", id |-> 0, args |-> {k}] :
          i \in 1..n, k \in ArgKeys }

Chunks(n, id) ==
    { [content |-> t, frag |-> NoFrag] : t \in Texts \cup {""} }
    \cup { [content |-> t, frag |-> f] : t \in {"", "a"}, f \in Frags(n, id) }

\* tool-call fragments are merged by position
MergeFrag(tcs, f) ==
    IF f = NoFrag THEN tcs
    ELSE IF f.index <= Len(tcs)
         THEN [tcs EXCEPT ![f.index].args = @ \cup f.args]
         ELSE Append(tcs, [name |-> f.name, id |-> f.id, args |-> f.args])

\* final_chunk = chunk  /  final_chunk += chunk
AddChunk(fc, c) ==
    IF fc.isNone
    THEN [isNone |-> FALSE, content |-> c.content,
          tool_calls |-> MergeFrag(<< >>, c.frag)]
    ELSE [isNone |-> FALSE, content |-> fc.content \o c.content,
          tool_calls |-> MergeFrag(fc.tool_calls, c.frag)]

\* The accumulated message as chain.stream's chunks alone would give it.
ChunkMsg(c) == AddChunk(NoneChunk, c)

\* mutant: the decision is taken on the chunk received last
ResponseLastChunk == IF chunk = NoChunk THEN final_chunk ELSE ChunkMsg(chunk)

\* response = final_chunk
Response == final_chunk

\* mutant: text is accumulated and never yielded
YieldsNothing(c) == FALSE

\* if chunk.content: yield chunk.content
YieldsText(c) == c.content # ""

(***************************************************************************)
(* Messages.                                                               *)
(***************************************************************************)
HumanMessage(text) ==
    [role |-> "user", content |-> text, tool_call_id |-> 0, name |-> "",
     tool_calls |-> << >>]

\* the AIMessage(Chunk) the stream accumulated, as appended to messages
AIMessage(r) ==
    [role |-> "assistant", content |-> r.content, tool_call_id |-> 0,
     name |-> "", tool_calls |-> r.tool_calls]

\* json.dumps(tool_result, ensure_ascii=False)
json_dumps(v) == "json:" \o v

ToolMessage(content, tool_call_id, name) ==
    [role |-> "tool", content |-> content, tool_call_id |-> tool_call_id,
     name |-> name, tool_calls |-> << >>]

(***************************************************************************)
(* Tools.  An outcome is a returned value or a raised exception.           *)
(***************************************************************************)
Returns(v) == [raises |-> "none", result |-> v]
Raises(e) == [raises |-> e, result |-> ""]

\* SerperSearchTool._run(**tool_args): the keyword arguments must fit
\* (query, num_results=10); Timeout and RequestException become payloads,
\* anything else raised while the response is simplified propagates.
serper_run(args) ==
    IF "query" \in args /\ args \subseteq SearchParams
    THEN {Returns("search_results"), Returns("error:timeout"), Raises("ToolError")}
    ELSE {Raises("TypeError")}

\* mutant: _run takes no keyword arguments
time_runNoArgs(args) ==
    IF args = {} THEN {Returns("time_string")} ELSE {Raises("TypeError")}

\* CurrentTimeTool._run(**kwargs)
time_run(args) == {Returns("time_string")}

\* mutant: the lookup of an unregistered name raises
UnknownToolRaises(tool_name) == {Raises("KeyError")}

\* tool_result = {"error": f"<unknown tool>: {tool_name}"}
UnknownTool(tool_name) == {Returns("error:unknown_tool:" \o tool_name)}

\* if tool_name == "serper_search" ... elif "current_time" ... else ...
Dispatch(tool_name, tool_args) ==
    IF tool_name = SEARCH THEN serper_run(tool_args)
    ELSE IF tool_name = TIME THEN time_run(tool_args)
    ELSE UnknownTool(tool_name)

\* mutant: the tool message is not appended
AppendResponseOnly(msgs, response, tool_message) ==
    Append(msgs, AIMessage(response))

\* mutant: the tool message is appended before the response that asked for it
AppendToolFirst(msgs, response, tool_message) ==
    Append(Append(msgs, tool_message), AIMessage(response))

\* mutant: messages is rebuilt from the turn
AppendToolTurnOnly(msgs, response, tool_message) ==
    << AIMessage(response), tool_message >>

\* messages.append(response); messages.append(tool_message)
AppendToolTurn(msgs, response, tool_message) ==
    Append(Append(msgs, AIMessage(response)), tool_message)

\* mutant: the cap test fires one pass early
CapReachedEarly(it, max) == it + 2 >= max

\* if iteration >= max_iterations - 1
CapReached(it, max) == it + 1 >= max

\* for iteration in range(max_iterations): the first pass, or none
EnterLoop(max) == IF max > 0 THEN "loop" ELSE "return"

\* where process_tool_calls goes once the tool calls of a response are done
AfterDispatch(it, max) ==
    IF CapReached(it, max) THEN "yield_warning"
    ELSE IF it + 1 < max THEN "loop" ELSE "return"

(***************************************************************************)
(* gen: framing of what the stream function yields.                        *)
(***************************************************************************)
sse_encode(data, event) == [event |-> event, data |-> data]

Frame(type, content) == sse_encode([type |-> type, content |-> content], "message")

\* mutant: gen goes straight to the stream function, without the meta frame
OnStartNoMeta(evs) == evs

\* yield sse_encode({"type": "meta", "request_id": request_id}, event="message")
OnStart(evs) == Append(evs, Frame("meta", "request_id"))

\* mutant: the text is framed twice
OnChunkTwice(evs, text) ==
    Append(Append(evs, Frame("delta", text)), Frame("delta", text))

\* yield sse_encode({"type": "delta", "content": chunk}, event="message")
OnChunk(evs, text) == Append(evs, Frame("delta", text))

\* mutant: the done frame is yielded twice
OnReturnTwice(evs) == Append(Append(evs, Frame("done", "")), Frame("done", ""))

\* mutant: gen ends without the done frame
OnReturnMissing(evs) == evs

\* yield sse_encode({"type": "done"}, event="message")
OnReturn(evs) == Append(evs, Frame("done", ""))

\* mutant: the done frame is yielded after the handler too (as from a finally)
OnExceptionThenDone(evs, e) ==
    Append(Append(evs, Frame("error", e)), Frame("done", ""))

\* mutant: the handler of gen yields nothing
OnExceptionSilent(evs, e) == evs

\* except Exception as e: yield sse_encode({"type": "error", "message": str(e)})
OnException(evs, e) == Append(evs, Frame("error", e))

\* the statements of gen that the try block covers
InTry(at) == at \in {"call", "loop", "stream", "yield_delta", "dispatch",
                     "yield_warning", "return"}

(***************************************************************************)
(* Configuration: load_config and validate_config (src/config.py) and      *)
(* build_callbacks (src/chains/basic_chat.py).  A setting is a string, ""  *)
(* when it is not set (None).  The environment overrides of the provider   *)
(* credentials are never written by the program and are folded into yaml;  *)
(* the LANGFUSE_* entries, which build_callbacks writes, are in environ.   *)
(***************************************************************************)
Providers == {"", "openai", "OpenAI", "openai ", "dashscope", "azure"}

\* str.strip and str.lower, on the provider names above and on the role
\* names of raw records.
strip(s) == IF s = "openai " THEN "openai"
            ELSE IF s = " System" THEN "System" ELSE s

lower(s) == IF s = "OpenAI" THEN "openai"
            ELSE IF s = "System" THEN "system" ELSE s

\* a or b, on Optional[str]
Or(a, b) == IF a # "" THEN a ELSE b

DefaultHost == "https://cloud.langfuse.com"

Yamls ==
    [ provider : Providers,
      openai : [api_key : {"", "key"}, model : {"", "gpt"}],
      dashscope : [api_key : {"", "key"}, base_url : {"", "url"},
                   model : {"", "qwen"}],
      langfuse : [secret_key : {"", "sk_yaml"}, public_key : {"", "pk_yaml"}] ]

Environs ==
    [ LANGFUSE_SECRET_KEY : {"", "sk_env"}, LANGFUSE_PUBLIC_KEY : {"", "pk_env"},
      LANGFUSE_HOST : {""} ]

load_config(data, env) ==
    [ provider |-> strip(Or(data.provider, "dashscope")),
      openai |-> data.openai,
      dashscope |-> data.dashscope,
      langfuse |->
        [ secret_key |-> Or(env.LANGFUSE_SECRET_KEY, data.langfuse.secret_key),
          public_key |-> Or(env.LANGFUSE_PUBLIC_KEY, data.langfuse.public_key),
          host |-> Or(env.LANGFUSE_HOST, DefaultHost) ] ]

\* if not value: errors.append(message)
Missing(value, message) == IF value = "" THEN << message >> ELSE << >>

\* mutant: validation stops at the first error it finds
validate_configFirstOnly(c) ==
    LET provider == lower(Or(c.provider, "dashscope"))
        all == IF provider = "openai"
               THEN Missing(c.openai.api_key, "OPENAI_API_KEY")
                    \o Missing(c.openai.model, "openai.model")
               ELSE IF provider = "dashscope"
               THEN Missing(c.dashscope.api_key, "DASHSCOPE_API_KEY")
                    \o Missing(c.dashscope.base_url, "dashscope.base_url")
                    \o Missing(c.dashscope.model, "dashscope.model")
               ELSE << "provider" >>
    IN  IF all = << >> THEN all ELSE << Head(all) >>

validate_config(c) ==
    LET provider == lower(Or(c.provider, "dashscope"))
        forProvider ==
            IF provider = "openai"
            THEN Missing(c.openai.api_key, "OPENAI_API_KEY")
                 \o Missing(c.openai.model, "openai.model")
            ELSE IF provider = "dashscope"
            THEN Missing(c.dashscope.api_key, "DASHSCOPE_API_KEY")
                 \o Missing(c.dashscope.base_url, "dashscope.base_url")
                 \o Missing(c.dashscope.model, "dashscope.model")
            ELSE << "provider" >>
        forLangfuse ==
            IF c.langfuse.secret_key # "" \/ c.langfuse.public_key # ""
            THEN Missing(c.langfuse.secret_key, "langfuse.secret_key")
                 \o Missing(c.langfuse.public_key, "langfuse.public_key")
            ELSE << >>
    IN  forProvider \o forLangfuse

\* build_callbacks(cfg): the handlers it returns ...
CallbackHandlers(c) ==
    IF c.langfuse.secret_key # "" /\ c.langfuse.public_key # ""
    THEN << "CallbackHandler" >>
    ELSE << >>

\* ... and os.environ after it.
EnvironAfterCallbacks(c, env) ==
    IF c.langfuse.secret_key # "" /\ c.langfuse.public_key # ""
    THEN [ LANGFUSE_SECRET_KEY |-> c.langfuse.secret_key,
           LANGFUSE_PUBLIC_KEY |-> c.langfuse.public_key,
           LANGFUSE_HOST |-> c.langfuse.host ]
    ELSE env

NoResponse == [status |-> 0, errors |-> << >>, body |-> "none"]

\* JSONResponse(status_code=400, content={"errors": errors})
JSONResponse(status_code, errors) ==
    [status |-> status_code, errors |-> errors, body |-> "json"]

\* StreamingResponse(gen(), media_type="text/event-stream")
StreamingResponse == [status |-> 200, errors |-> << >>, body |-> "text/event-stream"]

\* A complete DashScope configuration without Langfuse.
PlainYaml ==
    [ provider |-> "dashscope",
      openai |-> [api_key |-> "", model |-> ""],
      dashscope |-> [api_key |-> "key", base_url |-> "url", model |-> "qwen"],
      langfuse |-> [secret_key |-> "", public_key |-> ""] ]

NoEnviron ==
    [LANGFUSE_SECRET_KEY |-> "", LANGFUSE_PUBLIC_KEY |-> "", LANGFUSE_HOST |-> ""]

\* chat_stream has returned the streaming response of a tool request under
\* the plain configuration.
\* An optional boolean of the request: absent, or given with a value.
Absent == << >>
Given(b) == << b >>
OptionalBool == {Absent, Given(TRUE), Given(FALSE)}

\* use_tools: bool = Field(default=True, ...)
BodyUseTools(field) == IF field = Absent THEN TRUE ELSE field[1]

\* mutant: the body field decides alone
FinalUseToolsOfBody(query, body) == body

\* use_tools_query if use_tools_query is not None else req.use_tools
FinalUseTools(query, body) == IF query # Absent THEN query[1] ELSE body

\* create_tool_calling_chain(cfg, ...) or build_chat_chain(cfg, ...)
BuildChain(final_use_tools) ==
    IF final_use_tools THEN "tool_calling" ELSE "basic"

ConfIdle ==
    /\ yaml = PlainYaml
    /\ environ = NoEnviron
    /\ cfg = load_config(PlainYaml, NoEnviron)
    /\ http = StreamingResponse
    /\ chain = "tool_calling"
    /\ callbacks = << >>
    /\ use_tools_query = Absent
    /\ req_use_tools = Absent

(***************************************************************************)
(* to_langchain_messages (src/chains/basic_chat.py), to which              *)
(* tool_calling_chat.to_langchain_messages delegates.  A field a record    *)
(* does not have reads as None (dict.get); tool_calls that are missing     *)
(* and tool_calls that are empty take the same branch and are both << >>.  *)
(***************************************************************************)
None == "<None>"

\* a or b, where a is None or a string
PyOr(a, b) == IF a = None \/ a = "" THEN b ELSE a

SomeCall == [name |-> SEARCH, id |-> 1, args |-> {"query"}]

RawRecords ==
    [ role : {"tool"}, content : {None, "", "y"}, tool_call_id : {None, "", "x"},
      id : {None, "i"}, name : {None}, tool_calls : {<< >>} ]
    \cup
    [ role : {None, "user", "system", " System", "assistant", "function"},
      content : {None, "y"}, tool_call_id : {None}, id : {None}, name : {None},
      tool_calls : {<< >>, << SomeCall >>} ]

SystemMessage(content) ==
    [role |-> "system", content |-> content, tool_call_id |-> 0, name |-> "",
     tool_calls |-> << >>]

\* ToolMessage declares tool_call_id: str, so its constructor rejects None.
ToolMessageRejects(tool_call_id) == tool_call_id = None

\* The body of `for m in messages or []`: the Message appended for m, or
\* the exception the constructor raises.
Convert(m) ==
    LET role == lower(strip(PyOr(m.role, "")))
        content == PyOr(m.content, "")
    IN  IF role = "system" THEN Returns(SystemMessage(content))
        ELSE IF role = "assistant"
        THEN Returns(AIMessage([content |-> content, tool_calls |-> m.tool_calls]))
        ELSE IF role = "tool"
        THEN LET tool_call_id == PyOr(m.tool_call_id, m.id)
             IN  IF ToolMessageRejects(tool_call_id)
                 THEN Raises("ValidationError")
                 ELSE Returns(ToolMessage(content, tool_call_id, m.name))
        ELSE Returns(HumanMessage(content))

RECURSIVE to_langchain_messages(_)
to_langchain_messages(ms) ==
    IF ms = << >> THEN Returns(<< >>)
    ELSE LET before == to_langchain_messages(SubSeq(ms, 1, Len(ms) - 1))
             last == Convert(ms[Len(ms)])
         IN  IF before.raises # "none" THEN before
             ELSE IF last.raises # "none" THEN Raises(last.raises)
             ELSE Returns(Append(before.result, last.result))

NotCalled == [raises |-> "not called", result |-> << >>]

NormIdle == raw = << >> /\ normalized = NotCalled

(***************************************************************************)
(* SerperSearchTool (src/tools/serper_search.py): __init__ and _run.  The  *)
(* request goes to serper.dev; what comes back is the reply: a timeout, a  *)
(* connection error, or a response with a status and a body.  A body is   *)
(* not JSON at all, or JSON of some shape; of a JSON object the model      *)
(* keeps the organic results and the related searches, each item standing  *)
(* for its rank.                                                           *)
(***************************************************************************)
MaxOrganic == 6   \* organic results in a response
MaxRelated == 4   \* related searches in a response

DefaultKey == "default_key"

Ranks(n) == [i \in 1..n |-> i]

Bodies ==
    [ shape : {"not_json", "array", "organic_null"}, organic : {<< >>},
      has_related : {FALSE}, related : {<< >>} ]
    \cup
    [ shape : {"object"}, organic : { Ranks(n) : n \in 0..MaxOrganic },
      has_related : {TRUE}, related : { Ranks(n) : n \in 0..MaxRelated } ]
    \cup
    [ shape : {"object"}, organic : { Ranks(n) : n \in 0..MaxOrganic },
      has_related : {FALSE}, related : {<< >>} ]

NoBody == [shape |-> "not_json", organic |-> << >>, has_related |-> FALSE,
           related |-> << >>]

Replies ==
    [ kind : {"timeout", "connection_error"}, status : {0}, body : {NoBody} ]
    \cup [ kind : {"response"}, status : {403}, body : {NoBody} ]
    \cup [ kind : {"response"}, status : {200}, body : Bodies ]

\* self._api_key = os.getenv("SERPER_API_KEY"), or the built-in key
SerperInit(env_key) == IF env_key = "" THEN DefaultKey ELSE env_key

\* mutant: the list is passed on whole
PrefixAll(seq, n) == seq

\* seq[:n]
Prefix(seq, n) == SubSeq(seq, 1, IF Len(seq) < n THEN Len(seq) ELSE n)

\* _simplify_result(result) for a JSON object
simplify_result(body) ==
    [ has_organic |-> body.organic # << >>,
      organic_results |-> Prefix(body.organic, 5),
      has_related |-> body.has_related,
      related_searches |-> Prefix(body.related, 3) ]

ErrorPayload(message) == [error |-> message]

\* _run(**tool_args) when the request gets the reply r.  A body that is
\* not JSON raises requests' JSONDecodeError, which either handler may
\* take, depending on the version of requests.
serper_search_run(args, r) ==
    IF ~("query" \in args /\ args \subseteq SearchParams)
    THEN {Raises("TypeError")}
    ELSE IF r.kind = "timeout"
    THEN {Returns(ErrorPayload("search request timed out"))}
    ELSE IF r.kind = "connection_error" \/ r.status >= 400
    THEN {Returns(ErrorPayload("network request failed"))}
    ELSE IF r.body.shape = "not_json"
    THEN {Returns(ErrorPayload("network request failed")),
          Returns(ErrorPayload("search result could not be parsed"))}
    ELSE IF r.body.shape = "array" THEN {Raises("AttributeError")}
    ELSE IF r.body.shape = "organic_null" THEN {Raises("TypeError")}
    ELSE {Returns(simplify_result(r.body))}

\* num_results: Optional[int] = Field(default=10, ge=1, le=20), and values
\* a tool call of the Model Client can carry in its place
NumResults == {0, 1, 5, 20, 21}

\* def _run(self, query: str, num_results: int = 10)
DefaultNum == 10

NotSent == [posted |-> FALSE, num |-> 0]

\* requests.request("POST", ..., data=json.dumps({"q": query,
\* "num": num_results, ...})): posted once the arguments are bound
Posted(args, n) ==
    IF ~("query" \in args /\ args \subseteq SearchParams) THEN NotSent
    ELSE [posted |-> TRUE,
          num |-> IF "num_results" \in args THEN n ELSE DefaultNum]

NotRun == [raises |-> "not run", result |-> << >>]

NoReply == [kind |-> "timeout", status |-> 0, body |-> NoBody]

SearchIdle ==
    /\ serper_env = ""
    /\ api_key = None
    /\ kwargs = {}
    /\ num_results = DefaultNum
    /\ sent = NotSent
    /\ reply = NoReply
    /\ outcome = NotRun

(***************************************************************************)
(* Requests side by side.  chat_stream is a plain function, so the server  *)
(* runs every request, and every next() of its gen, on a worker thread.    *)
(* What requests share is the process: os.environ and the _store of        *)
(* core/memory.py.  Everything else is local to chat_stream, gen and       *)
(* stream_text, and is kept per request in run.                            *)
(***************************************************************************)
Requests == {1, 2}

SessionIds == {"s1", "s2"}

\* req.query of request r
Query(r) == IF r = 1 THEN "q1" ELSE "q2"

NewRun ==
    [ pc |-> "received", stream_func |-> "none", frames |-> << >>,
      history_store |-> << >>, messages |-> << >>,
      full_response_content |-> << >>, pulled |-> 0, raised |-> "none",
      done_before |-> {} ]

\* _store: Dict[str, InMemoryChatMessageHistory] = {}
EmptyStore == [s \in {} |-> << >>]

\* max_history_messages: int = Field(default=20, ...)
DefaultMaxHistory == 20

SessIdle ==
    /\ req = [r \in Requests |->
                [session_id |-> "s1", use_tools |-> TRUE,
                 max_history_messages |-> DefaultMaxHistory]]
    /\ run = [r \in Requests |-> NewRun]
    /\ store = EmptyStore
    /\ envReaders = {}
    /\ envWriters = {}

(***************************************************************************)
(* sse_encode (src/api/sse.py) as text.  A text is a sequence of           *)
(* characters; LF, QUOTE and BACKSLASH stand for the line feed, the        *)
(* double quote and the backslash, and a word of the protocol ("type",     *)
(* "delta", "data: ", ...) is kept as one character, since it needs no     *)
(* escaping.  Of an event the model keeps its type and one text field.     *)
(* The frames of the run model (sse_encode above) are the same frames,     *)
(* kept as their fields.                                                   *)
(***************************************************************************)
MaxText == 2      \* characters in the text field of an event

LF == "LF"
QUOTE == "QUOTE"
BACKSLASH == "BACKSLASH"

TextChars == {"a", "n", LF, QUOTE, BACKSLASH}

EventTypes == {"delta", "tool_start", "tool_result", "done", "error", "meta"}

\* The text field of an event of the type.
KeyOf(type) ==
    IF type = "delta" THEN "content"
    ELSE IF type = "meta" THEN "request_id"
    ELSE IF type = "error" THEN "message"
    ELSE IF type = "tool_start" THEN "name"
    ELSE "result"

\* mutant: json.dumps writes every character as it is
EscapeNothing(c) == << c >>

\* json.dumps on one character of a string
Escape(c) ==
    IF c = LF THEN << BACKSLASH, "n" >>
    ELSE IF c = QUOTE THEN << BACKSLASH, QUOTE >>
    ELSE IF c = BACKSLASH THEN << BACKSLASH, BACKSLASH >>
    ELSE << c >>

RECURSIVE EscapeAll(_)
EscapeAll(text) ==
    IF text = << >> THEN << >> ELSE Escape(Head(text)) \o EscapeAll(Tail(text))

\* json.dumps of a string
json_string(text) == << QUOTE >> \o EscapeAll(text) \o << QUOTE >>

\* json.dumps(data, ensure_ascii=False): {"type": "...", "<key>": "..."}
json_text(data) ==
    << "{" >> \o json_string(<< "type" >>) \o << ":", " " >>
    \o json_string(<< data.type >>)
    \o ( IF data.type = "done" THEN << >>
         ELSE << ",", " " >> \o json_string(<< KeyOf(data.type) >>)
              \o << ":", " " >> \o json_string(data.content) )
    \o << "}" >>

\* "\n".join(lines)
RECURSIVE JoinLines(_)
JoinLines(lines) ==
    IF lines = << >> THEN << >>
    ELSE IF Len(lines) = 1 THEN lines[1]
    ELSE lines[1] \o << LF >> \o JoinLines(Tail(lines))

\* sse_encode(data, event=event), the text it returns
sse_frame(data, event) ==
    LET payload == json_text(data)
        lines == ( IF event # None /\ event # ""
                   THEN << << "event: ", event >> >> ELSE << >> )
                 \o << << "data: " >> \o payload >>
    IN  JoinLines(lines) \o << LF, LF >>

(***************************************************************************)
(* The functions modelled on their own are at rest.                        *)
(***************************************************************************)
NoFrame == << >>

SseIdle == sse_data = [type |-> "done", content |-> << >>]
           /\ sse_event = None /\ frame = NoFrame

(***************************************************************************)
(* CurrentTimeTool._run (src/tools/current_time.py): datetime.now() and    *)
(* strftime("%Y-%m-%d %H:%M:%S (%A)").  An instant is the fields of a      *)
(* datetime; the text is a sequence of characters, the weekday name being  *)
(* kept as one.                                                            *)
(***************************************************************************)
Instant(y, mo, d, h, mi, sec) ==
    [year |-> y, month |-> mo, day |-> d, hour |-> h, minute |-> mi,
     second |-> sec]

is_leap(year) == year % 4 = 0 /\ (year % 100 # 0 \/ year % 400 = 0)

days_in_month(year, month) ==
    IF month = 2 THEN (IF is_leap(year) THEN 29 ELSE 28)
    ELSE IF month \in {4, 6, 9, 11} THEN 30 ELSE 31

\* number of days before January 1st of the year
days_before_year(year) ==
    LET y == year - 1
    IN  y * 365 + (y \div 4) - (y \div 100) + (y \div 400)

RECURSIVE days_before_month(_, _)
days_before_month(year, month) ==
    IF month = 1 THEN 0
    ELSE days_before_month(year, month - 1) + days_in_month(year, month - 1)

\* date.toordinal(): 1 for 0001-01-01
toordinal(t) ==
    days_before_year(t.year) + days_before_month(t.year, t.month) + t.day

\* mutant: the ordinal itself is taken as the day of the week
weekdayOfOrdinal(t) == toordinal(t) % 7

\* date.weekday(): 0 for Monday
weekday(t) == (toordinal(t) + 6) % 7

DayNames == << "Monday", "Tuesday", "Wednesday", "Thursday", "Friday",
               "Saturday", "Sunday" >>

DigitChars == << "0", "1", "2", "3", "4", "5", "6", "7", "8", "9" >>

\* n in decimal, zero-padded to width characters (never cut)
RECURSIVE Decimal(_, _)
Decimal(n, width) ==
    IF n < 10 /\ width <= 1 THEN << DigitChars[n + 1] >>
    ELSE Append(Decimal(n \div 10, width - 1), DigitChars[(n % 10) + 1])

\* t.strftime("%Y-%m-%d %H:%M:%S (%A)")
strftime(t) ==
    Decimal(t.year, 4) \o << "-" >> \o Decimal(t.month, 2) \o << "-" >>
    \o Decimal(t.day, 2) \o << " " >> \o Decimal(t.hour, 2) \o << ":" >>
    \o Decimal(t.minute, 2) \o << ":" >> \o Decimal(t.second, 2)
    \o << " ", "(", DayNames[weekday(t) + 1], ")" >>

NoInstant == Instant(1, 1, 1, 0, 0, 0)

TimeIdle == now = NoInstant /\ formatted_time = << >>

Callers == {1, 2}

\* A thread that is not in get_session_history and holds no history.
NoGet == [pc |-> "idle", session_id |-> None, history |-> 0,
          messages |-> << >>, expected |-> << >>]

MemIdle ==
    /\ appended = [s \in SessionIds |-> << >>]
    /\ objects = 0
    /\ callers = [c \in Callers |-> NoGet]

(***************************************************************************)
(* upload_file and process_stream (src/api/app.py) with                    *)
(* file_processor_stream (src/api/file_processing.py).  A file id is a     *)
(* number (uuid4 gives a fresh one each time); an event is its step and    *)
(* its progress.  Both handlers are coroutines of the one event loop and   *)
(* have no await before they return, so each runs as one step; gen runs    *)
(* from one yield to the next when the response asks for the next frame.   *)
(***************************************************************************)
Filenames == {None, "a.PDF", "b.docx", "c.txt"}

\* os.path.splitext(file_name)[1].lower()
file_ext(file_name) ==
    IF file_name = "a.PDF" THEN ".pdf"
    ELSE IF file_name = "b.docx" THEN ".docx"
    ELSE ".txt"

Event(step, progress) == [step |-> step, progress |-> progress]

\* The event gen or file_processor_stream yields at a position.
EventAt(at) ==
    IF at = "connected" THEN Event("connected", 0)
    ELSE IF at = "start" THEN Event("start", 0)
    ELSE IF at = "identifying" THEN Event("identifying", 20)
    ELSE IF at = "analyzing_pdf_40" THEN Event("analyzing_pdf", 40)
    ELSE IF at = "analyzing_pdf_80" THEN Event("analyzing_pdf", 80)
    ELSE IF at = "analyzing_word" THEN Event("analyzing_word", 50)
    ELSE IF at = "completed" THEN Event("completed", 100)
    ELSE Event("error", 0)

\* mutant: the handler of file_processor_stream falls through to the last
\* step
NextYieldErrorGoesOn(at, file_name) ==
    IF at = "none" THEN "connected"
    ELSE IF at = "connected" THEN "start"
    ELSE IF at = "start"
    THEN (IF file_name = None THEN "error" ELSE "identifying")
    ELSE IF at = "identifying"
    THEN (IF file_ext(file_name) = ".pdf" THEN "analyzing_pdf_40"
          ELSE IF file_ext(file_name) \in {".doc", ".docx"} THEN "analyzing_word"
          ELSE "completed")
    ELSE IF at = "analyzing_pdf_40" THEN "analyzing_pdf_80"
    ELSE IF at \in {"analyzing_pdf_80", "analyzing_word", "error"} THEN "completed"
    ELSE "end"

\* Where gen is suspended next when it is resumed at a position: the
\* yield of gen itself, then the yields of file_processor_stream, whose
\* splitext raises TypeError on a filename that is None.
NextYield(at, file_name) ==
    IF at = "none" THEN "connected"
    ELSE IF at = "connected" THEN "start"
    ELSE IF at = "start"
    THEN (IF file_name = None THEN "error" ELSE "identifying")
    ELSE IF at = "identifying"
    THEN (IF file_ext(file_name) = ".pdf" THEN "analyzing_pdf_40"
          ELSE IF file_ext(file_name) \in {".doc", ".docx"} THEN "analyzing_word"
          ELSE "completed")
    ELSE IF at = "analyzing_pdf_40" THEN "analyzing_pdf_80"
    ELSE IF at \in {"analyzing_pdf_80", "analyzing_word"} THEN "completed"
    ELSE "end"

\* file_processor_stream has been called: its try/finally is entered.
InProcessor(at) == at \notin {"none", "connected"}

\* mutant: the entry is read and left in the cache
PopKeeps(cache, file_id) == cache

\* cache.pop(file_id)
Pop(cache, file_id) == [f \in DOMAIN cache \ {file_id} |-> cache[f]]

Clients == {1, 2}

NoProc == [pc |-> "idle", file_id |-> 0, filename |-> None, at |-> "none",
           events |-> << >>]

FileIdle ==
    /\ upload_cache = << >>
    /\ disk = {}
    /\ issued = 0
    /\ procs = [p \in Clients |-> NoProc]

UtilIdle == SseIdle /\ TimeIdle /\ MemIdle /\ FileIdle

\* The client is connected; the model of the run alone never disconnects it.
NoCut == [events |-> 0, invocations |-> 0, tools |-> 0, in_next |-> FALSE]

LinkIdle == connected = TRUE /\ cut = NoCut

(***************************************************************************)
(* Initial state: gen has been handed to StreamingResponse and has not     *)
(* run yet, so create_tool_calling_chain(cfg) has returned: the            *)
(* configuration object has the serper section that it and                 *)
(* process_tool_calls read.  In the session variant gen calls the stream   *)
(* function as app.py writes the call, with session_id and query; in the   *)
(* stateless variant the stream function is called with a messages list,   *)
(* the parameters that stream_tool_calling_text and ChatRequest declare.   *)
(* Only the stateless variant gets past the call.                          *)
(***************************************************************************)
Init ==
    /\ pc = "idle"
    /\ variant \in {"session", "stateless"}
    /\ max_iterations \in 0..MaxIter
    /\ iteration = 0
    /\ messages = << HumanMessage("q") >>
    /\ final_chunk = NoneChunk
    /\ chunk = NoChunk
    /\ pending = ""
    /\ tc_index = 0
    /\ events = << >>
    /\ nextId = 1
    /\ pulled = 0
    /\ raised = "none"
    /\ escaped = FALSE
    /\ invocations = 0
    /\ phaseInput = << >>
    /\ phaseStart = 0
    /\ streamOpen = FALSE
    /\ fragsSeen = {}
    /\ toolLog = << >>
    /\ LinkIdle
    /\ ConfIdle
    /\ NormIdle
    /\ SearchIdle
    /\ SessIdle
    /\ UtilIdle

\* An exception e leaves process_tool_calls (or the call of it) while gen
\* is at position pc.
Throw(e) ==
    /\ raised' = e
    /\ pc' = "closed"
    /\ IF InTry(pc)
       THEN events' = OnException(events, e) /\ escaped' = escaped
       ELSE events' = events /\ escaped' = TRUE

\* gen starts: the meta frame.
Start ==
    /\ pc = "idle"
    /\ events' = OnStart(events)
    /\ pc' = "call"
    /\ UNCHANGED << variant, max_iterations, iteration, messages, final_chunk,
                    chunk, pending, tc_index, nextId, pulled, raised, escaped,
                    invocations, phaseInput, phaseStart, streamOpen, fragsSeen,
                    toolLog >>
    /\ UNCHANGED others

\* stream_func(chain, session_id=..., query=..., callbacks=...): the
\* parameters of stream_tool_calling_text are (chain, messages, callbacks,
\* max_iterations), so the session keywords do not bind.
Call ==
    /\ pc = "call"
    /\ IF variant = "session"
       THEN Throw("TypeError") /\ iteration' = iteration
       ELSE /\ pc' = EnterLoop(max_iterations)
            /\ iteration' = 0
            /\ UNCHANGED << events, raised, escaped >>
    /\ UNCHANGED << variant, max_iterations, messages, final_chunk, chunk,
                    pending, tc_index, nextId, pulled, invocations, phaseInput,
                    phaseStart, streamOpen, fragsSeen, toolLog >>
    /\ UNCHANGED others

\* chain.stream({"messages": messages}, config=config)
InvokeModel ==
    /\ pc = "loop"
    /\ pc' = "stream"
    /\ final_chunk' = NoneChunk
    /\ chunk' = NoChunk
    /\ invocations' = invocations + 1
    /\ phaseInput' = messages
    /\ phaseStart' = Len(events)
    /\ streamOpen' = TRUE
    /\ fragsSeen' = {}
    /\ tc_index' = 0
    /\ UNCHANGED << variant, max_iterations, iteration, messages, pending,
                    events, nextId, pulled, raised, escaped, toolLog >>
    /\ UNCHANGED others

\* One more chunk arrives: it is accumulated and, if it has text, yielded.
PullChunk ==
    /\ pc = "stream"
    /\ pulled < MaxChunks
    /\ \E c \in Chunks(Len(final_chunk.tool_calls), nextId) :
          /\ chunk' = c
          /\ final_chunk' = AddChunk(final_chunk, c)
          /\ nextId' = IF c.frag.name # "" THEN nextId + 1 ELSE nextId
          /\ fragsSeen' = fragsSeen \cup ({c.frag} \ {NoFrag})
          /\ pending' = IF YieldsText(c) THEN c.content ELSE pending
          /\ pc' = IF YieldsText(c) THEN "yield_delta" ELSE "stream"
    /\ pulled' = pulled + 1
    /\ UNCHANGED << variant, max_iterations, iteration, messages, tc_index,
                    events, raised, escaped, invocations, phaseInput,
                    phaseStart, streamOpen, toolLog >>
    /\ UNCHANGED others

\* gen frames the text it was handed and asks for the next value.
EmitDelta ==
    /\ pc = "yield_delta"
    /\ events' = OnChunk(events, pending)
    /\ pc' = "stream"
    /\ UNCHANGED << variant, max_iterations, iteration, messages, final_chunk,
                    chunk, pending, tc_index, nextId, pulled, raised, escaped,
                    invocations, phaseInput, phaseStart, streamOpen, fragsSeen,
                    toolLog >>
    /\ UNCHANGED others

\* The Model Client raises instead of delivering a chunk.
StreamRaise ==
    /\ pc = "stream"
    /\ Throw("ModelError")
    /\ streamOpen' = FALSE
    /\ UNCHANGED << variant, max_iterations, iteration, messages, final_chunk,
                    chunk, pending, tc_index, nextId, pulled, invocations,
                    phaseInput, phaseStart, fragsSeen, toolLog >>
    /\ UNCHANGED others

\* The stream ends: response = final_chunk; if response.tool_calls: ...
\* else: break.  A stream without any chunk leaves response = None, and
\* response.tool_calls raises AttributeError.
StreamEnd ==
    /\ pc = "stream"
    /\ streamOpen' = FALSE
    /\ IF Response.isNone
       THEN Throw("AttributeError") /\ tc_index' = tc_index
       ELSE IF Response.tool_calls # << >>
            THEN /\ pc' = "dispatch"
                 /\ tc_index' = 1
                 /\ UNCHANGED << events, raised, escaped >>
            ELSE /\ pc' = "closed"
                 /\ events' = OnReturn(events)
                 /\ UNCHANGED << tc_index, raised, escaped >>
    /\ UNCHANGED << variant, max_iterations, iteration, messages, final_chunk,
                    chunk, pending, nextId, pulled, invocations, phaseInput,
                    phaseStart, fragsSeen, toolLog >>
    /\ UNCHANGED others

LogEntry(tool_call, o) ==
    [phase |-> invocations, index |-> tc_index, name |-> tool_call.name,
     id |-> tool_call.id, args |-> tool_call.args, streamOpen |-> streamOpen,
     raises |-> o.raises, result |-> o.result]

\* One pass of `for tool_call in response.tool_calls`, and what follows
\* the last pass.
ToolCall ==
    /\ pc = "dispatch"
    /\ LET tool_call == Response.tool_calls[tc_index]
           last == tc_index = Len(Response.tool_calls)
       IN \E o \in Dispatch(tool_call.name, tool_call.args) :
            /\ toolLog' = Append(toolLog, LogEntry(tool_call, o))
            /\ IF o.raises # "none"
               THEN /\ Throw(o.raises)
                    /\ UNCHANGED << messages, tc_index, iteration >>
               ELSE /\ messages' = AppendToolTurn(messages, Response,
                                      ToolMessage(json_dumps(o.result),
                                                  tool_call.id, tool_call.name))
                    /\ tc_index' = tc_index + 1
                    /\ pc' = IF last THEN AfterDispatch(iteration, max_iterations)
                                     ELSE "dispatch"
                    /\ iteration' = IF last /\ ~CapReached(iteration, max_iterations)
                                    THEN iteration + 1 ELSE iteration
                    /\ UNCHANGED << events, raised, escaped >>
    /\ UNCHANGED << variant, max_iterations, final_chunk, chunk, pending,
                    nextId, pulled, invocations, phaseInput, phaseStart,
                    streamOpen, fragsSeen >>
    /\ UNCHANGED others

\* yield of the warning text: gen frames it as a delta.
EmitWarning ==
    /\ pc = "yield_warning"
    /\ events' = OnChunk(events, Warning)
    /\ pc' = "return"
    /\ UNCHANGED << variant, max_iterations, iteration, messages, final_chunk,
                    chunk, pending, tc_index, nextId, pulled, raised, escaped,
                    invocations, phaseInput, phaseStart, streamOpen, fragsSeen,
                    toolLog >>
    /\ UNCHANGED others

\* break: process_tool_calls returns and gen yields the done frame.
Return ==
    /\ pc = "return"
    /\ events' = OnReturn(events)
    /\ pc' = "closed"
    /\ UNCHANGED << variant, max_iterations, iteration, messages, final_chunk,
                    chunk, pending, tc_index, nextId, pulled, raised, escaped,
                    invocations, phaseInput, phaseStart, streamOpen, fragsSeen,
                    toolLog >>
    /\ UNCHANGED others

Next ==
    \/ Start
    \/ Call
    \/ InvokeModel
    \/ PullChunk
    \/ EmitDelta
    \/ StreamRaise
    \/ StreamEnd
    \/ ToolCall
    \/ EmitWarning
    \/ Return

Spec == Init /\ [][Next]_vars

(***************************************************************************)
(* Observations on the event stream used by the properties.                *)
(***************************************************************************)
Type(i) == events[i].data.type

Count(t) == Cardinality({ i \in 1..Len(events) : Type(i) = t })

LastIs(t) == Len(events) > 0 /\ Type(Len(events)) = t

RECURSIVE TextFrom(_)
\* concatenation of the contents of the frames from position i on
TextFrom(i) ==
    IF i > Len(events) THEN ""
    ELSE events[i].data.content \o TextFrom(i + 1)

\* text of the frames emitted since the latest chain.stream(...) call
PhaseText == TextFrom(phaseStart + 1)

Registered == {SEARCH, TIME}

ToolFailed == raised \in {"TypeError", "ToolError"} /\ toolLog # << >>

(***************************************************************************)
(* C1: In a run whose responses hold no tool call and in which nothing     *)
(* raises, the frames after the meta frame are zero or more delta frames   *)
(* followed by exactly one done frame; no error frame follows a done       *)
(* frame.                                                                  *)
(***************************************************************************)
C1_DeltasThenOneDone ==
    /\ (pc = "closed" /\ raised = "none" /\ toolLog = << >>) =>
          /\ Len(events) >= 2
          /\ Type(1) = "meta"
          /\ \A i \in 2..(Len(events) - 1) : Type(i) = "delta"
          /\ LastIs("done")
          /\ Count("done") = 1
    /\ \A i, j \in 1..Len(events) :
          (i < j /\ Type(i) = "done") => Type(j) # "error"

C1_Witness ==
    /\ pc = "closed" /\ raised = "none" /\ toolLog = << >>
    /\ Count("delta") >= 2
    /\ LastIs("done")

(***************************************************************************)
(* C2: If anything raises during a run (before the first chunk, between    *)
(* chunks, in a tool), the stream holds exactly one error frame, it is     *)
(* the last frame, there is no done frame, and the exception does not      *)
(* leave gen.                                                              *)
(***************************************************************************)
C2_OneTerminalError ==
    /\ (raised # "none") =>
          /\ pc = "closed"
          /\ ~escaped
          /\ Count("error") = 1
          /\ LastIs("error")
          /\ Count("done") = 0
    /\ (raised = "none") => Count("error") = 0

C2_Witness ==
    /\ raised = "ModelError"
    /\ Count("delta") >= 1
    /\ toolLog # << >>
    /\ LastIs("error")

\* the latest stream ended with a response that requests tools
RequestsTools ==
    /\ ~streamOpen
    /\ raised # "ModelError"
    /\ ~final_chunk.isNone
    /\ final_chunk.tool_calls # << >>

\* the frames end with the warning delta followed by done
EndsWithWarningDone ==
    /\ Len(events) >= 2
    /\ events[Len(events) - 1].data = [type |-> "delta", content |-> Warning]
    /\ LastIs("done")

(***************************************************************************)
(* C3: A run invokes the model at most max_iterations times, and a run     *)
(* whose response in phase max_iterations still requests tools emits the   *)
(* warning delta and then done, never error.                               *)
(***************************************************************************)
C3_CapEndsInWarningDone ==
    /\ invocations <= max_iterations
    /\ (pc = "closed" /\ invocations = max_iterations /\ RequestsTools) =>
          /\ EndsWithWarningDone
          /\ Count("error") = 0

(***************************************************************************)
(* C4: Every dispatched tool call has a tool_start frame and, once it has  *)
(* returned, a tool_result frame: as many of each as calls dispatched.     *)
(***************************************************************************)
C4_ToolFramesPerCall ==
    /\ Count("tool_start") = Len(toolLog)
    /\ Count("tool_result") =
          Cardinality({ i \in 1..Len(toolLog) : toolLog[i].raises = "none" })

\* the tool calls of the latest response have all been dispatched
DispatchDone ==
    /\ pc \in {"loop", "yield_warning", "return"}
    /\ tc_index >= 2
    /\ tc_index = Len(final_chunk.tool_calls) + 1

(***************************************************************************)
(* C5: After the dispatch of a response with k tool calls, messages has    *)
(* grown by k + 1 entries: the assistant message once, then the k tool     *)
(* messages in request order, each with the id and the serialized result   *)
(* of its call.                                                            *)
(***************************************************************************)
C5_GrowsByKPlusOne ==
    DispatchDone =>
        LET k == Len(final_chunk.tool_calls)
            base == Len(phaseInput)
        IN /\ Len(messages) = base + k + 1
           /\ messages[base + 1] = AIMessage(final_chunk)
           /\ \A i \in 1..k :
                 /\ messages[base + 1 + i].role = "tool"
                 /\ messages[base + 1 + i].tool_call_id = final_chunk.tool_calls[i].id
                 /\ messages[base + 1 + i].content =
                       json_dumps(toolLog[Len(toolLog) - k + i].result)

(***************************************************************************)
(* C6: A tool that raises does not abort the run: its failure becomes the  *)
(* content of that call's tool message and no error frame is emitted.      *)
(***************************************************************************)
C6_ToolFailureFedBack ==
    \A i \in 1..Len(toolLog) :
        toolLog[i].raises # "none" =>
            /\ Count("error") = 0
            /\ raised = "none"
            /\ \E j \in 1..Len(messages) :
                  /\ messages[j].role = "tool"
                  /\ messages[j].tool_call_id = toolLog[i].id

\* messages holds a tool message for tool call id
HasToolMessage(msgs, id) ==
    \E j \in 1..Len(msgs) : msgs[j].role = "tool" /\ msgs[j].tool_call_id = id

C8_DispatchThenInvocation ==
    (pc = "closed" /\ raised = "none") =>
        \A i \in 1..Len(toolLog) : toolLog[i].phase < invocations

(***************************************************************************)
(* C8 (amended): a dispatch that completes in an iteration before the      *)
(* last is followed by a model invocation whose input holds every tool     *)
(* message appended so far; a dispatch in iteration max_iterations is      *)
(* followed by the warning delta and done without a further invocation;    *)
(* a dispatch in which a tool raises ends the run with the error frame.    *)
(***************************************************************************)
C8_DispatchOutcomes ==
    /\ pc \in {"stream", "yield_delta"} =>
          /\ phaseInput = messages
          /\ \A i \in 1..Len(toolLog) :
                /\ toolLog[i].phase < invocations
                /\ toolLog[i].raises = "none"
                /\ HasToolMessage(phaseInput, toolLog[i].id)
    /\ pc = "closed" =>
          \A i \in 1..Len(toolLog) :
              \/ toolLog[i].phase < invocations
              \/ /\ toolLog[i].phase = max_iterations
                 /\ raised = "none"
                 /\ EndsWithWarningDone
              \/ /\ toolLog[Len(toolLog)].raises # "none"
                 /\ toolLog[Len(toolLog)].phase = toolLog[i].phase
                 /\ raised = toolLog[Len(toolLog)].raises
                 /\ LastIs("error")
    /\ (DispatchDone /\ pc = "loop") => iteration < max_iterations

C8_Witness ==
    /\ pc = "stream"
    /\ invocations = 2
    /\ Len(toolLog) = 2
    /\ HasToolMessage(phaseInput, toolLog[2].id)

\* what the fragments of the current stream add up to, position by position
SeenCalls == Cardinality({ f \in fragsSeen : f.name # "" })

SeenName(i) == (CHOOSE f \in fragsSeen : f.index = i /\ f.name # "").name

SeenArgs(i) == UNION { f.args : f \in { g \in fragsSeen : g.index = i } }

(***************************************************************************)
(* C9: No tool is invoked while the stream of the phase is open: every     *)
(* delta of the phase has been emitted before the first tool invocation,   *)
(* and the calls dispatched are those of the response accumulated over     *)
(* the whole stream (every fragment of every position).                    *)
(***************************************************************************)
C9_DispatchOnAccumulatedResponse ==
    /\ \A i \in 1..Len(toolLog) : ~toolLog[i].streamOpen
    /\ (~streamOpen /\ invocations > 0 /\ raised # "ModelError") =>
          (SeenCalls > 0 <=> tc_index > 0)
    /\ pc = "dispatch" =>
          /\ PhaseText = final_chunk.content
          /\ Len(Response.tool_calls) = SeenCalls
          /\ \A i \in 1..Len(Response.tool_calls) :
                /\ Response.tool_calls[i].name = SeenName(i)
                /\ Response.tool_calls[i].args = SeenArgs(i)
    /\ \A i \in 1..Len(toolLog) :
          toolLog[i].phase = invocations =>
              /\ toolLog[i].name = SeenName(toolLog[i].index)
              /\ toolLog[i].args = SeenArgs(toolLog[i].index)

C9_Witness ==
    /\ pc = "dispatch"
    /\ tc_index = 2
    /\ Cardinality(fragsSeen) >= 2
    /\ Len(events) > phaseStart
    /\ chunk.frag = NoFrag

(***************************************************************************)
(* C10: Streaming is incremental: whenever the next chunk is about to be   *)
(* pulled, the text of every chunk pulled so far in the phase has been     *)
(* framed and handed on; a yielded text is the text of the chunk pulled    *)
(* last.                                                                   *)
(***************************************************************************)
C10_DeltaBeforeNextPull ==
    /\ pc = "stream" => PhaseText = final_chunk.content
    /\ pc = "yield_delta" =>
          /\ pending = chunk.content
          /\ PhaseText \o pending = final_chunk.content

C10_Witness ==
    /\ pc = "stream"
    /\ streamOpen
    /\ pulled < MaxChunks
    /\ Len(events) >= phaseStart + 2
    /\ PhaseText = final_chunk.content

(***************************************************************************)
(* C11: for every request that starts streaming the first frame is the     *)
(* meta frame carrying request_id and the stream has exactly one meta      *)
(* frame; every delta, tool, done and error frame comes after it, also     *)
(* when the run fails at once.                                             *)
(***************************************************************************)
C11_MetaFirstAndOnce ==
    /\ pc # "idle" => events # << >>
    /\ events # << >> =>
          /\ events[1] = Frame("meta", "request_id")
          /\ Count("meta") = 1
          /\ \A i \in 2..Len(events) :
                Type(i) \in {"delta", "tool_start", "tool_result", "done", "error"}

\* The stream function fails when it is called: the error frame is the
\* second frame, behind the meta frame.
C11_Witness ==
    /\ raised = "TypeError"
    /\ pulled = 0
    /\ Len(events) = 2
    /\ Type(1) = "meta"
    /\ Type(2) = "error"

(***************************************************************************)
(* The request handler chat_stream (src/api/app.py), from the request to   *)
(* the response it returns.  The request asks for tools (the default of    *)
(* use_tools) and carries the fields gen passes on, session_id and query.  *)
(***************************************************************************)
NoConfig == [provider |-> "unloaded"]

\* No request has been received.
ConfUnborn ==
    /\ yaml = PlainYaml
    /\ environ = NoEnviron
    /\ cfg = NoConfig
    /\ http = NoResponse
    /\ chain = "none"
    /\ callbacks = << >>
    /\ use_tools_query = Absent
    /\ req_use_tools = Absent

\* No request has been handled: no gen exists.
RunUnborn ==
    /\ pc = "unborn"
    /\ variant = "session"
    /\ max_iterations = 3
    /\ iteration = 0
    /\ messages = << HumanMessage("q") >>
    /\ final_chunk = NoneChunk
    /\ chunk = NoChunk
    /\ pending = ""
    /\ tc_index = 0
    /\ events = << >>
    /\ nextId = 1
    /\ pulled = 0
    /\ raised = "none"
    /\ escaped = FALSE
    /\ invocations = 0
    /\ phaseInput = << >>
    /\ phaseStart = 0
    /\ streamOpen = FALSE
    /\ fragsSeen = {}
    /\ toolLog = << >>

InitConfig ==
    /\ RunUnborn
    /\ LinkIdle
    /\ yaml \in Yamls
    /\ environ \in Environs
    /\ cfg = NoConfig
    /\ http = NoResponse
    /\ chain = "none"
    /\ callbacks = << >>
    /\ use_tools_query \in OptionalBool
    /\ req_use_tools \in OptionalBool
    /\ NormIdle
    /\ SearchIdle
    /\ SessIdle
    /\ UtilIdle

\* chat_stream up to its return: the 400 response, or the chain, the
\* callbacks and the streaming response around gen.
chat_stream ==
    /\ pc = "unborn"
    /\ LET c == load_config(yaml, environ)
           errors == validate_config(c)
       IN  /\ cfg' = c
           /\ IF errors # << >>
              THEN /\ http' = JSONResponse(400, errors)
                   /\ pc' = "rejected"
                   /\ UNCHANGED << environ, chain, callbacks >>
              ELSE /\ chain' = BuildChain(FinalUseTools(use_tools_query,
                                             BodyUseTools(req_use_tools)))
                   /\ callbacks' = CallbackHandlers(c)
                   /\ environ' = EnvironAfterCallbacks(c, environ)
                   /\ http' = StreamingResponse
                   /\ pc' = "idle"
    /\ UNCHANGED << variant, max_iterations, iteration, messages, final_chunk,
                    chunk, pending, tc_index, events, nextId, pulled, raised,
                    escaped, invocations, phaseInput, phaseStart, streamOpen,
                    fragsSeen, toolLog, yaml, use_tools_query, req_use_tools,
                    linkVars, pureVars, sessVars >>

\* gen is followed here for the tool-calling chain.
NextConfig ==
    \/ chat_stream
    \/ chain = "tool_calling" /\ Start
    \/ chain = "tool_calling" /\ Call

SpecConfig == InitConfig /\ [][NextConfig]_vars

\* The settings without a default in the settings class of the selected
\* provider, each with the error that names it.
RequiredSettings(c) ==
    LET provider == lower(Or(c.provider, "dashscope"))
    IN  IF provider = "openai"
        THEN { << c.openai.api_key, "OPENAI_API_KEY" >>,
               << c.openai.model, "openai.model" >> }
        ELSE IF provider = "dashscope"
        THEN { << c.dashscope.api_key, "DASHSCOPE_API_KEY" >>,
               << c.dashscope.base_url, "dashscope.base_url" >>,
               << c.dashscope.model, "dashscope.model" >> }
        ELSE {}

Reported(e) == \E i \in DOMAIN http.errors : http.errors[i] = e

(***************************************************************************)
(* C12: when validation of the configuration reports an error the request  *)
(* is answered before any streaming starts: no frame (not even meta), no   *)
(* chain, no model or tool call, and the response lists every error, each  *)
(* missing required setting of the selected provider included.             *)
(***************************************************************************)
C12_ConfigErrorsAbort ==
    /\ http # NoResponse /\ validate_config(cfg) # << >> =>
          http = JSONResponse(400, validate_config(cfg))
    /\ http.body = "json" =>
          /\ http.errors # << >>
          /\ pc = "rejected"
          /\ events = << >>
          /\ chain = "none"
          /\ callbacks = << >>
          /\ invocations = 0
          /\ toolLog = << >>
          /\ \A r \in RequiredSettings(cfg) : r[1] = "" => Reported(r[2])
          /\ cfg.langfuse.secret_key = "" /\ cfg.langfuse.public_key # ""
                => Reported("langfuse.secret_key")
          /\ cfg.langfuse.public_key = "" /\ cfg.langfuse.secret_key # ""
                => Reported("langfuse.public_key")

\* DashScope is selected by default and none of its three settings is
\* there, nor is the Langfuse public key: four errors in one response.
C12_Witness ==
    /\ yaml.provider = ""
    /\ http.status = 400
    /\ Len(http.errors) = 4
    /\ Reported("DASHSCOPE_API_KEY")
    /\ Reported("dashscope.base_url")
    /\ Reported("dashscope.model")
    /\ Reported("langfuse.public_key")
    /\ events = << >>

Handled == http # NoResponse

AtYield ==
    \/ pc \in {"call", "return"}
    \/ pc = "stream" /\ chunk # NoChunk /\ chunk.content # ""

\* The client disconnects mid-stream: while the frame is being sent
\* (gen suspended) or while the next() call is under way.
Disconnect ==
    /\ connected
    /\ pc \notin {"idle", "closed"}
    /\ connected' = FALSE
    /\ \E in_next \in (IF AtYield THEN BOOLEAN ELSE {TRUE}) :
          cut' = [events |-> Len(events), invocations |-> invocations,
                  tools |-> Len(toolLog), in_next |-> in_next]
    /\ UNCHANGED << runVars, confVars, pureVars, sessVars >>

\* gen is executing: the server has called next() and gen has not yielded
\* the frame of that call yet.
Running == connected \/ (cut.in_next /\ Len(events) = cut.events)

NextDisconnect ==
    \/ Disconnect
    \/ Running /\ Start
    \/ Running /\ Call
    \/ Running /\ InvokeModel
    \/ Running /\ PullChunk
    \/ Running /\ EmitDelta
    \/ Running /\ StreamRaise
    \/ Running /\ StreamEnd
    \/ Running /\ ToolCall
    \/ Running /\ EmitWarning
    \/ Running /\ Return

SpecDisconnect == Init /\ [][NextDisconnect]_vars

(***************************************************************************)
(* C16: once the client has disconnected during a model phase the run      *)
(* invokes no further tool and makes no further model invocation,          *)
(* whichever phase it is in, a phase whose stream carries only tool-call   *)
(* fragments included.                                                     *)
(***************************************************************************)
C16_NothingAfterDisconnect ==
    ~connected /\ cut.invocations >= 1 =>
        /\ Len(toolLog) = cut.tools
        /\ invocations = cut.invocations

(***************************************************************************)
(* to_langchain_messages applied to a list of raw records.                 *)
(***************************************************************************)
MaxRecords == 2

SeqsUpTo(S, n) == UNION { [1..k -> S] : k \in 0..n }

InitNormalize ==
    /\ RunUnborn
    /\ LinkIdle
    /\ ConfUnborn
    /\ raw \in SeqsUpTo(RawRecords, MaxRecords)
    /\ normalized = NotCalled
    /\ SearchIdle
    /\ SessIdle
    /\ UtilIdle

Normalize ==
    /\ normalized.raises = "not called"
    /\ normalized' = to_langchain_messages(raw)
    /\ UNCHANGED << raw, runVars, linkVars, confVars, searchVars, sessVars,
                    utilVars >>

NextNormalize == Normalize

SpecNormalize == InitNormalize /\ [][NextNormalize]_vars

Called == normalized.raises # "not called"

\* The role of a raw record as to_langchain_messages reads it.
RoleOf(m) == lower(strip(PyOr(m.role, "")))

(***************************************************************************)
(* C18: normalize never raises when optional fields are missing, for       *)
(* every role, tool included; it maps every raw record to exactly one      *)
(* Message, in the same order, and a record whose role is missing or not   *)
(* system, assistant or tool becomes a user message.  Stated for records  *)
(* whose tool_call_id is missing or not empty.                             *)
(***************************************************************************)
C18_NormalizeTotal ==
    Called /\ (\A i \in DOMAIN raw : raw[i].tool_call_id # "") =>
        /\ normalized.raises = "none"
        /\ Len(normalized.result) = Len(raw)
        /\ \A i \in DOMAIN raw :
              normalized.result[i].role =
                  IF RoleOf(raw[i]) \in {"system", "assistant", "tool"}
                  THEN RoleOf(raw[i]) ELSE "user"

\* The raw record {role: tool, tool_call_id: x, content: y} and nothing else.
ToolRecord(m) ==
    /\ m.role = "tool"
    /\ m.tool_call_id # None
    /\ m.content # None
    /\ m.id = None
    /\ m.name = None

(***************************************************************************)
(* C19: normalizing the raw tool record {role: tool, tool_call_id: x,      *)
(* content: y} gives a Message that reads back the same tool_call_id x     *)
(* and the same content y, for all x and y.                                *)
(***************************************************************************)
C19_ToolRoundTrip ==
    Called /\ Len(raw) = 1 /\ ToolRecord(raw[1]) =>
        /\ normalized.raises = "none"
        /\ normalized.result[1].tool_call_id = raw[1].tool_call_id
        /\ normalized.result[1].content = raw[1].content

(***************************************************************************)
(* One SerperSearchTool: it is constructed, then _run is called once, as   *)
(* process_tool_calls calls it.                                            *)
(***************************************************************************)
InitSearch ==
    /\ RunUnborn
    /\ LinkIdle
    /\ ConfUnborn
    /\ NormIdle
    /\ serper_env \in {"", "my_key"}
    /\ api_key = None
    /\ kwargs \in SUBSET (SearchParams \cup {"region"})
    /\ num_results \in IF "num_results" \in kwargs THEN NumResults
                                                  ELSE {DefaultNum}
    /\ sent = NotSent
    /\ reply \in Replies
    /\ outcome = NotRun
    /\ SessIdle
    /\ UtilIdle

\* create_serper_search_tool(...): SerperSearchTool.__init__
SerperCreate ==
    /\ api_key = None
    /\ api_key' = SerperInit(serper_env)
    /\ UNCHANGED << serper_env, kwargs, num_results, sent, reply, outcome >>
    /\ UNCHANGED << runVars, linkVars, confVars, normVars, sessVars, utilVars >>

\* search_tool._run(**tool_args)
SerperRun ==
    /\ api_key # None
    /\ outcome.raises = "not run"
    /\ sent' = Posted(kwargs, num_results)
    /\ outcome' \in serper_search_run(kwargs, reply)
    /\ UNCHANGED << serper_env, api_key, kwargs, num_results, reply >>
    /\ UNCHANGED << runVars, linkVars, confVars, normVars, sessVars, utilVars >>

NextSearch ==
    \/ SerperCreate
    \/ SerperRun

SpecSearch == InitSearch /\ [][NextSearch]_vars

HasRun == outcome.raises # "not run"

\* The call fits the signature of _run: a query, and nothing but query
\* and num_results.
WellFormedCall == "query" \in kwargs /\ kwargs \subseteq SearchParams

\* The request failed: timeout, transport failure, an error status, or a
\* body that does not parse.
SearchFailed ==
    \/ reply.kind \in {"timeout", "connection_error"}
    \/ reply.status >= 400
    \/ reply.body.shape = "not_json"

(***************************************************************************)
(* C20: the search tool never raises; on a timeout, on any other           *)
(* transport or API failure and on an unparsable response it returns a     *)
(* payload {error: <string>}, so a search failure reaches the              *)
(* orchestrator as a value.  Stated for calls that fit the signature.      *)
(***************************************************************************)
C20_SearchNeverRaises ==
    HasRun /\ WellFormedCall =>
        /\ outcome.raises = "none"
        /\ SearchFailed => DOMAIN outcome.result = {"error"}

\* _run returned what _simplify_result made of the response.
Simplified == HasRun /\ outcome.raises = "none"
              /\ "organic_results" \in DOMAIN outcome.result

(***************************************************************************)
(* C25: for every search-API response, the result the search tool returns  *)
(* holds at most 5 organic entries, the first 5 in the provider's order,   *)
(* and at most 3 related queries, the first 3, whatever num_results was    *)
(* requested.                                                              *)
(***************************************************************************)
C25_AtMostFiveAndThree ==
    Simplified =>
        LET organic == outcome.result.organic_results
            related == outcome.result.related_searches
        IN  /\ Len(organic) <= 5
            /\ Len(related) <= 3
            /\ organic = SubSeq(reply.body.organic, 1, Len(organic))
            /\ related = SubSeq(reply.body.related, 1, Len(related))
            /\ Len(organic) < 5 => organic = reply.body.organic
            /\ Len(related) < 3 => related = reply.body.related

\* 20 results were asked for, the response has 6 organic results and 4
\* related searches, and 5 and 3 of them are returned.
C25_Witness ==
    /\ Simplified
    /\ "num_results" \in kwargs /\ num_results = 20
    /\ Len(reply.body.organic) = 6 /\ Len(reply.body.related) = 4
    /\ outcome.result.organic_results = Ranks(5)
    /\ outcome.result.related_searches = Ranks(3)

(***************************************************************************)
(* C26: every search request sent to the search provider carries a result  *)
(* count in the range 1..20, 10 when the model gave none; a tool call      *)
(* whose num_results lies outside that range is never forwarded to the     *)
(* provider as given.                                                      *)
(***************************************************************************)
C26_CountInRange ==
    sent.posted =>
        /\ sent.num \in 1..20
        /\ "num_results" \notin kwargs => sent.num = 10

(***************************************************************************)
(* Two requests, each handled by chat_stream and then streamed by its      *)
(* gen: with use_tools through stream_tool_calling_text, without it        *)
(* through stream_text (src/chains/basic_chat.py).  The steps of the two   *)
(* requests interleave in every way; a request handled after another has   *)
(* closed is a later request.                                              *)
(***************************************************************************)
MaxTexts == 2     \* chunks the Model Client delivers to one stream_text call

\* A complete DashScope configuration with both Langfuse keys.
LangfuseYaml ==
    [ PlainYaml EXCEPT !.langfuse =
          [secret_key |-> "sk_yaml", public_key |-> "pk_yaml"] ]

InitSessions ==
    /\ RunUnborn
    /\ LinkIdle
    /\ NormIdle
    /\ SearchIdle
    /\ yaml \in {PlainYaml, LangfuseYaml}
    /\ environ = NoEnviron
    /\ cfg = NoConfig
    /\ http = NoResponse
    /\ chain = "none"
    /\ callbacks = << >>
    /\ use_tools_query = Absent
    /\ req_use_tools = Absent
    /\ req \in [Requests -> [session_id : SessionIds, use_tools : BOOLEAN,
                              max_history_messages : {0, DefaultMaxHistory}]]
    /\ run = [r \in Requests |-> NewRun]
    /\ store = EmptyStore
    /\ envReaders = {}
    /\ envWriters = {}
    /\ UtilIdle

\* mutant: the tool-calling stream function is taken whatever use_tools says
StreamFuncAlwaysTools(use_tools) == "stream_tool_calling_text"

\* if final_use_tools: stream_func = stream_tool_calling_text
\* else: stream_func = stream_text
StreamFunc(use_tools) ==
    IF use_tools THEN "stream_tool_calling_text" ELSE "stream_text"

\* "".join(full_response_content)
RECURSIVE Join(_)
Join(parts) == IF parts = << >> THEN "" ELSE Head(parts) \o Join(Tail(parts))

\* history_store.add_ai_message(text)
AssistantTurn(text) == AIMessage([content |-> text, tool_calls |-> << >>])

Closed(r) == run[r].pc \in {"closed", "rejected"}

\* chat_stream for request r, up to its return.
Handle(r) ==
    /\ run[r].pc = "received"
    /\ LET c == load_config(yaml, environ)
       IN  IF validate_config(c) # << >>
           THEN /\ run' = [run EXCEPT ![r].pc = "rejected"]
                /\ envReaders' = envReaders \cup {r}
                /\ UNCHANGED << environ, envWriters >>
           ELSE /\ run' = [run EXCEPT
                             ![r].pc = "idle",
                             ![r].stream_func = StreamFunc(req[r].use_tools),
                             ![r].done_before = { q \in Requests : Closed(q) }]
                /\ environ' = EnvironAfterCallbacks(c, environ)
                /\ envReaders' = envReaders \cup {r}
                /\ envWriters' = IF CallbackHandlers(c) # << >>
                                 THEN envWriters \cup {r} ELSE envWriters
    /\ UNCHANGED << req, store, yaml, cfg, http, chain, callbacks,
                    use_tools_query, req_use_tools >>
    /\ UNCHANGED << runVars, linkVars, pureVars >>

\* gen of request r starts: the meta frame.
GenStart(r) ==
    /\ run[r].pc = "idle"
    /\ run' = [run EXCEPT ![r].pc = "call",
                          ![r].frames = OnStart(run[r].frames)]
    /\ UNCHANGED << req, store, envReaders, envWriters >>
    /\ UNCHANGED << runVars, linkVars, confVars, pureVars >>

\* stream_func(chain, session_id=..., query=..., callbacks=...): the tool
\* function does not take these keywords; stream_text makes a new
\* ChatMessageHistory, adds the user message and copies the messages.
GenCall(r) ==
    /\ run[r].pc = "call"
    /\ IF run[r].stream_func = "stream_tool_calling_text"
       THEN run' = [run EXCEPT
                       ![r].pc = "closed",
                       ![r].raised = "TypeError",
                       ![r].frames = OnException(run[r].frames, "TypeError")]
       ELSE run' = [run EXCEPT
                       ![r].pc = "streaming",
                       ![r].history_store = << HumanMessage(Query(r)) >>,
                       ![r].messages = << HumanMessage(Query(r)) >>]
    /\ UNCHANGED << req, store, envReaders, envWriters >>
    /\ UNCHANGED << runVars, linkVars, confVars, pureVars >>

\* for chunk in chain.stream(...): if chunk: ... yield text_chunk
TextChunk(r) ==
    /\ run[r].pc = "streaming"
    /\ run[r].pulled < MaxTexts
    /\ \E text \in Texts \cup {""} :
          run' = [run EXCEPT
                     ![r].pulled = @ + 1,
                     ![r].full_response_content =
                         IF text # "" THEN Append(@, text) ELSE @,
                     ![r].frames =
                         IF text # "" THEN OnChunk(@, text) ELSE @]
    /\ UNCHANGED << req, store, envReaders, envWriters >>
    /\ UNCHANGED << runVars, linkVars, confVars, pureVars >>

\* The Model Client raises: gen yields the error frame.
TextRaise(r) ==
    /\ run[r].pc = "streaming"
    /\ run' = [run EXCEPT
                   ![r].pc = "closed",
                   ![r].raised = "ModelError",
                   ![r].frames = OnException(run[r].frames, "ModelError")]
    /\ UNCHANGED << req, store, envReaders, envWriters >>
    /\ UNCHANGED << runVars, linkVars, confVars, pureVars >>

\* The stream ends: the reply is added to history_store, stream_text
\* returns and gen yields the done frame.
TextEnd(r) ==
    /\ run[r].pc = "streaming"
    /\ run' = [run EXCEPT
                   ![r].pc = "closed",
                   ![r].history_store =
                       IF run[r].full_response_content # << >>
                       THEN Append(@, AssistantTurn(Join(run[r].full_response_content)))
                       ELSE @,
                   ![r].frames = OnReturn(run[r].frames)]
    /\ UNCHANGED << req, store, envReaders, envWriters >>
    /\ UNCHANGED << runVars, linkVars, confVars, pureVars >>

NextSessions ==
    \E r \in Requests :
        \/ Handle(r)
        \/ GenStart(r)
        \/ GenCall(r)
        \/ TextChunk(r)
        \/ TextRaise(r)
        \/ TextEnd(r)

SpecSessions == InitSessions /\ [][NextSessions]_vars

\* Request r streams, or has streamed, through stream_text.
InStreamText(r) ==
    run[r].stream_func = "stream_text" /\ run[r].pc \in {"streaming", "closed"}

\* Request r has completed with a reply: done, after at least one delta.
Completed(r) ==
    /\ run[r].stream_func = "stream_text"
    /\ run[r].pc = "closed"
    /\ run[r].raised = "none"
    /\ run[r].full_response_content # << >>

\* Neither request had closed when the other was handled.
Overlap(r, q) ==
    /\ r # q
    /\ run[r].pc # "received" /\ run[q].pc # "received"
    /\ q \notin run[r].done_before
    /\ r \notin run[q].done_before

Contains(seq, m) == \E i \in DOMAIN seq : seq[i] = m

FrameType(r, i) == run[r].frames[i].data.type

(***************************************************************************)
(* C13: the turns of a session accumulate across requests: a request with  *)
(* session id s that comes after a completed request with the same s is    *)
(* seeded with that request's user turn and, after it, its assistant turn  *)
(* (the concatenation of the streamed text), ahead of its own user turn.   *)
(***************************************************************************)
C13_HistoryAccumulates ==
    \A r \in Requests : \A q \in run[r].done_before :
        ( /\ InStreamText(r)
          /\ Completed(q)
          /\ req[q].session_id = req[r].session_id )
        => \E i, j \in DOMAIN run[r].messages :
              /\ i < j /\ j < Len(run[r].messages)
              /\ run[r].messages[i] = HumanMessage(Query(q))
              /\ run[r].messages[j] =
                     AssistantTurn(Join(run[q].full_response_content))

(***************************************************************************)
(* C14: when two requests for the same session id have run concurrently    *)
(* and completed, every turn either of them appended is in the stored      *)
(* sequence of that session.                                               *)
(***************************************************************************)
C14_NoLostAppend ==
    \A r, q \in Requests :
        ( /\ Overlap(r, q)
          /\ Completed(r) /\ Completed(q)
          /\ req[q].session_id = req[r].session_id )
        => /\ req[r].session_id \in DOMAIN store
           /\ \A i \in DOMAIN run[r].history_store :
                 Contains(store[req[r].session_id], run[r].history_store[i])

(***************************************************************************)
(* C15: two runs that execute concurrently share no mutable state other    *)
(* than the Session Store: no run writes a process-wide setting that the   *)
(* other run reads or writes.                                              *)
(***************************************************************************)
C15_NoSharedWrites ==
    \A w \in envWriters : \A o \in envReaders \cup envWriters :
        ~Overlap(w, o)

\* The frames of request r are meta, then deltas, then one frame of type
\* last.
MetaDeltasThen(r, last) ==
    LET n == Len(run[r].frames)
    IN  /\ n >= 2
        /\ FrameType(r, 1) = "meta"
        /\ \A i \in 2..(n - 1) : FrameType(r, i) = "delta"
        /\ FrameType(r, n) = last

NoToolFrames(r) ==
    \A i \in DOMAIN run[r].frames :
        FrameType(r, i) \notin {"tool_start", "tool_result"}

SseEvents ==
    [ type : EventTypes \ {"done"}, content : SeqsUpTo(TextChars, MaxText) ]
    \cup [ type : {"done"}, content : {<< >>} ]

InitSse ==
    /\ RunUnborn
    /\ LinkIdle
    /\ ConfUnborn
    /\ NormIdle
    /\ SearchIdle
    /\ SessIdle
    /\ TimeIdle
    /\ MemIdle
    /\ FileIdle
    /\ sse_data \in SseEvents
    /\ sse_event \in {None, "", "message"}
    /\ frame = NoFrame

Encode ==
    /\ frame = NoFrame
    /\ frame' = sse_frame(sse_data, sse_event)
    /\ UNCHANGED << sse_data, sse_event >>
    /\ UNCHANGED << runVars, linkVars, confVars, normVars, searchVars, sessVars,
                    timeVars, memVars, fileVars >>

NextSse == Encode

SpecSse == InitSse /\ [][NextSse]_vars

\* A text cut at its line feeds.
RECURSIVE SplitLines(_)
SplitLines(text) ==
    IF \A i \in DOMAIN text : text[i] # LF THEN << text >>
    ELSE LET i == CHOOSE k \in DOMAIN text :
                     text[k] = LF /\ \A j \in 1..(k - 1) : text[j] # LF
         IN  << SubSeq(text, 1, i - 1) >>
             \o SplitLines(SubSeq(text, i + 1, Len(text)))

\* A JSON string read from its opening quote: the text, and what follows
\* the closing quote.
RECURSIVE ReadString(_, _)
ReadString(text, acc) ==
    IF text = << >> THEN [ok |-> FALSE, text |-> acc, rest |-> << >>]
    ELSE IF Head(text) = QUOTE
    THEN [ok |-> TRUE, text |-> acc, rest |-> Tail(text)]
    ELSE IF Head(text) = BACKSLASH
    THEN IF Len(text) < 2 THEN [ok |-> FALSE, text |-> acc, rest |-> << >>]
         ELSE ReadString(SubSeq(text, 3, Len(text)),
                         Append(acc, IF text[2] = "n" THEN LF ELSE text[2]))
    ELSE ReadString(Tail(text), Append(acc, Head(text)))

HasPrefix(text, prefix) ==
    Len(text) >= Len(prefix) /\ SubSeq(text, 1, Len(prefix)) = prefix

After(text, prefix) == SubSeq(text, Len(prefix) + 1, Len(text))

NotJson == [type |-> "not json", content |-> << >>]

\* json.loads of the text of one object: the event it denotes.
json_loads(text) ==
    LET head == << "{", QUOTE, "type", QUOTE, ":", " ", QUOTE >>
    IN  IF ~HasPrefix(text, head) THEN NotJson
        ELSE LET type == ReadString(After(text, head), << >>)
             IN  IF ~type.ok \/ Len(type.text) # 1 THEN NotJson
                 ELSE IF type.rest = << "}" >>
                 THEN [type |-> type.text[1], content |-> << >>]
                 ELSE LET key == << ",", " ", QUOTE, KeyOf(type.text[1]), QUOTE,
                                    ":", " ", QUOTE >>
                      IN  IF ~HasPrefix(type.rest, key) THEN NotJson
                          ELSE LET value == ReadString(After(type.rest, key), << >>)
                               IN  IF value.ok /\ value.rest = << "}" >>
                                   THEN [type |-> type.text[1],
                                         content |-> value.text]
                                   ELSE NotJson

Encoded == frame # NoFrame

(***************************************************************************)
(* C21: encode produces exactly one frame per event: an optional           *)
(* "event: <name>" line, then exactly one "data: " line that holds one     *)
(* JSON object, then a blank line, with no line break inside the JSON;     *)
(* decoding the data line gives back the event, for the six types.         *)
(***************************************************************************)
C21_OneFramePerEvent ==
    Encoded =>
        LET lines == SplitLines(frame)
            n == Len(lines)
            named == sse_event # None /\ sse_event # ""
        IN  /\ n = IF named THEN 4 ELSE 3
            /\ named => lines[1] = << "event: ", sse_event >>
            /\ HasPrefix(lines[n - 2], << "data: " >>)
            /\ lines[n - 1] = << >>
            /\ lines[n] = << >>
            /\ json_loads(Tail(lines[n - 2])) = sse_data

\* An error event whose message is a line feed and a quote, sent under
\* the event name message.
C21_Witness ==
    /\ Encoded
    /\ sse_event = "message"
    /\ sse_data = [type |-> "error", content |-> << LF, QUOTE >>]
    /\ Len(SplitLines(frame)) = 4

\* The ids of the tool calls that the assistant messages before position i
\* of messages ask for.
AskedBefore(i) ==
    UNION { { messages[j].tool_calls[k].id : k \in DOMAIN messages[j].tool_calls } :
                j \in { j \in 1..(i - 1) : messages[j].role = "assistant" } }

(***************************************************************************)
(* C22: in every reachable state of a run, every tool message of messages  *)
(* carries a tool_call_id, and it is the id of a tool_calls entry of an    *)
(* assistant message that stands earlier in the sequence.                  *)
(***************************************************************************)
C22_ToolMessagesAnswerACall ==
    \A i \in DOMAIN messages :
        messages[i].role = "tool" =>
            /\ messages[i].tool_call_id # 0
            /\ messages[i].tool_call_id \in AskedBefore(i)

\* Two tool calls of one response have been answered.
C22_Witness ==
    /\ Cardinality({ i \in DOMAIN messages : messages[i].role = "tool" }) = 2
    /\ invocations = 1

InPhase(entry) == entry.phase = invocations

\* The tool calls dispatched for the response of the current phase.
PhaseLog == SelectSeq(toolLog, InPhase)

\* The tool messages appended for the response of the current phase.
PhaseToolMessages ==
    { i \in (Len(phaseInput) + 1)..Len(messages) : messages[i].role = "tool" }

\* The for loop over response.tool_calls has been entered.
Dispatching == tc_index >= 1

(***************************************************************************)
(* C23: the tool calls of one assistant turn are dispatched one at a time  *)
(* in request order, each exactly once: a call is started only when the    *)
(* tool messages of all calls before it have been produced, and once the   *)
(* turn is over every call of the response has been dispatched, none       *)
(* twice.                                                                  *)
(***************************************************************************)
C23_EachCallOnceInOrder ==
    Dispatching =>
        /\ Len(PhaseLog) <= Len(Response.tool_calls)
        /\ \A k \in DOMAIN PhaseLog :
               /\ PhaseLog[k].index = k
               /\ PhaseLog[k].id = Response.tool_calls[k].id
               /\ Cardinality(PhaseToolMessages) >= k - 1
        /\ pc # "dispatch" =>
               /\ Len(PhaseLog) = Len(Response.tool_calls)
               /\ Cardinality(PhaseToolMessages) = Len(Response.tool_calls)

(***************************************************************************)
(* The session store (src/core/memory.py) called from the worker threads   *)
(* of the server.  _store maps a session id to a history object; an        *)
(* object is known by its number and carries its messages.  The test       *)
(* `session_id not in _store`, the insertion and the return are three      *)
(* steps of a thread, and nothing keeps another thread from running        *)
(* between them.  add_message acts on the object the thread holds, which   *)
(* is the stored one only as long as _store still maps the id to it.       *)
(***************************************************************************)
MaxObjects == 3     \* history objects created
MaxAppends == 2     \* messages added, over all sessions

InitStore ==
    /\ RunUnborn
    /\ LinkIdle
    /\ ConfUnborn
    /\ NormIdle
    /\ SearchIdle
    /\ SessIdle
    /\ SseIdle
    /\ TimeIdle
    /\ MemIdle
    /\ FileIdle

StoreFrame ==
    /\ UNCHANGED << req, run, envReaders, envWriters >>
    /\ UNCHANGED << runVars, linkVars, confVars, normVars, searchVars, sseVars,
                    timeVars, fileVars >>

\* if session_id not in _store:
GetTest(c, s) ==
    /\ callers[c].pc = "idle"
    /\ callers' = [callers EXCEPT ![c] =
                      [NoGet EXCEPT !.pc = IF s \in DOMAIN store
                                           THEN "return" ELSE "insert",
                                    !.session_id = s]]
    /\ UNCHANGED << store, appended, objects >>
    /\ StoreFrame

\* _store[session_id] = InMemoryChatMessageHistory()
GetInsert(c) ==
    /\ callers[c].pc = "insert"
    /\ objects < MaxObjects
    /\ LET s == callers[c].session_id
       IN  store' = [x \in DOMAIN store \cup {s} |->
                       IF x = s THEN [id |-> objects + 1, messages |-> << >>]
                       ELSE store[x]]
    /\ objects' = objects + 1
    /\ callers' = [callers EXCEPT ![c].pc = "return"]
    /\ UNCHANGED appended
    /\ StoreFrame

\* return _store[session_id]: the thread now holds the stored object;
\* KeyError when the entry has been deleted since the test.
GetReturn(c) ==
    /\ callers[c].pc = "return"
    /\ LET s == callers[c].session_id
       IN  callers' = [callers EXCEPT ![c] =
               IF s \in DOMAIN store
               THEN [pc |-> "holding", session_id |-> s,
                     history |-> store[s].id, messages |-> store[s].messages,
                     expected |-> appended[s]]
               ELSE [NoGet EXCEPT !.pc = "KeyError", !.session_id = s]]
    /\ UNCHANGED << store, appended, objects >>
    /\ StoreFrame

\* add_message(m) on the history the thread got.
AddMessage(c, m) ==
    /\ callers[c].pc = "holding"
    /\ Len(appended["s1"]) + Len(appended["s2"]) < MaxAppends
    /\ LET s == callers[c].session_id
       IN  /\ store' = IF s \in DOMAIN store /\ store[s].id = callers[c].history
                       THEN [store EXCEPT ![s].messages = Append(@, m)]
                       ELSE store
           /\ appended' = [appended EXCEPT ![s] = Append(@, m)]
    /\ UNCHANGED << objects, callers >>
    /\ StoreFrame

\* The caller of get_session_history is done with the history.
Release(c) ==
    /\ callers[c].pc \in {"holding", "KeyError"}
    /\ callers' = [callers EXCEPT ![c] = NoGet]
    /\ UNCHANGED << store, appended, objects >>
    /\ StoreFrame

\* clear_session_history(session_id)
Clear(s) ==
    /\ store' = [x \in DOMAIN store \ {s} |-> store[x]]
    /\ UNCHANGED << appended, objects, callers >>
    /\ StoreFrame

NextStore ==
    \/ \E c \in Callers, s \in SessionIds : GetTest(c, s)
    \/ \E c \in Callers : GetInsert(c)
    \/ \E c \in Callers : GetReturn(c)
    \/ \E c \in Callers, m \in Texts : AddMessage(c, m)
    \/ \E c \in Callers : Release(c)
    \/ \E s \in SessionIds : Clear(s)

SpecStore == InitStore /\ [][NextStore]_vars

Got(c) == callers[c].pc = "holding"

(***************************************************************************)
(* C24: get(sessionId) on an id never referenced before creates and        *)
(* returns an empty sequence, and every later get of the same id returns   *)
(* that sequence with everything appended to it so far: whatever a get     *)
(* returns is what has been added to histories of its session id, in       *)
(* order.                                                                  *)
(***************************************************************************)
C24_GetReturnsAllAppended ==
    \A c \in Callers : Got(c) => callers[c].messages = callers[c].expected

(***************************************************************************)
(* current_time invoked at one instant.                                    *)
(***************************************************************************)
\* The years from which the instants are drawn: leap years of both kinds
\* (2000, 2024), a century that is none (2100), ordinary years.
Years == {1999, 2000, 2023, 2024, 2026, 2100}

\* what datetime.now() can return
Instants ==
    { t \in [year : Years, month : 1..12, day : 1..31, hour : {0, 9, 23},
             minute : {0, 59}, second : {0, 59}] :
          t.day <= days_in_month(t.year, t.month) }

InitTime ==
    /\ RunUnborn
    /\ LinkIdle
    /\ ConfUnborn
    /\ NormIdle
    /\ SearchIdle
    /\ SessIdle
    /\ SseIdle
    /\ MemIdle
    /\ FileIdle
    /\ now \in Instants
    /\ formatted_time = << >>

\* CurrentTimeTool._run(**kwargs)
TimeRun ==
    /\ formatted_time = << >>
    /\ formatted_time' = strftime(now)
    /\ UNCHANGED now
    /\ UNCHANGED << runVars, linkVars, confVars, normVars, searchVars, sessVars,
                    sseVars, memVars, fileVars >>

NextTime == TimeRun

SpecTime == InitTime /\ [][NextTime]_vars

TimeGiven == formatted_time # << >>

\* The number written by the characters of text at positions from..to.
RECURSIVE NumberAt(_, _, _)
NumberAt(text, from, to) ==
    LET digit == CHOOSE d \in 0..9 : DigitChars[d + 1] = text[to]
    IN  IF from = to THEN digit
        ELSE NumberAt(text, from, to - 1) * 10 + digit

AllDigits(text, from, to) ==
    \A i \in from..to : \E d \in 1..10 : text[i] = DigitChars[d]

\* Zeller's congruence: the day of the week of a date of the Gregorian
\* calendar, 0 for Saturday.
Zeller(year, month, day) ==
    LET m == IF month < 3 THEN month + 12 ELSE month
        y == IF month < 3 THEN year - 1 ELSE year
        K == y % 100
        J == y \div 100
    IN  (day + ((13 * (m + 1)) \div 5) + K + (K \div 4) + (J \div 4) + 5 * J) % 7

ZellerNames == << "Saturday", "Sunday", "Monday", "Tuesday", "Wednesday",
                  "Thursday", "Friday" >>

ResponseText == IF final_chunk.isNone THEN "" ELSE final_chunk.content

(***************************************************************************)
(* C28: in each Generating phase the contents of the delta events emitted  *)
(* in the phase, concatenated in order, are the text content accumulated   *)
(* for the response of the phase (while a text waits to be framed, the     *)
(* part before it), and no delta with empty content is ever emitted.       *)
(***************************************************************************)
C28_DeltasAreTheResponseText ==
    /\ pc \in {"stream", "dispatch"} => PhaseText = ResponseText
    /\ pc = "yield_delta" => PhaseText \o pending = ResponseText
    /\ (pc = "closed" /\ raised = "none" /\ ~final_chunk.isNone
          /\ final_chunk.tool_calls = << >>) => PhaseText = ResponseText
    /\ \A i \in DOMAIN events :
           Type(i) = "delta" => events[i].data.content # ""

\* A phase of three chunks, two with text and one without, has ended.
C28_Witness ==
    /\ pc = "dispatch"
    /\ invocations = 1
    /\ pulled = 3
    /\ ResponseText = "ab"
    /\ Count("delta") = 2

IsPrefix(a, b) == Len(a) <= Len(b) /\ SubSeq(b, 1, Len(a)) = a

(***************************************************************************)
(* C29: throughout a run messages is append-only: after every step the     *)
(* sequence before the step is a prefix of the sequence after it, and a    *)
(* step of a phase whose response has no tool calls leaves it unchanged.   *)
(***************************************************************************)
C29_MessagesAppendOnly ==
    [][ /\ IsPrefix(messages, messages')
        /\ Response.tool_calls = << >> => messages' = messages ]_vars

\* Two tool turns have been appended behind the user message.
C29_Witness ==
    /\ Len(messages) = 5
    /\ messages[1] = HumanMessage("q")
    /\ messages[5].role = "tool"

(***************************************************************************)
(* C30: for a request that sets max_history_messages = N, the history      *)
(* passed to the model holds at most N messages, for every N including     *)
(* N < 2.                                                                  *)
(***************************************************************************)
C30_HistoryAtMostN ==
    \A r \in Requests :
        InStreamText(r) =>
            Len(run[r].messages) <= req[r].max_history_messages

\* The dispatches of current_time so far.
TimeCalls == { k \in DOMAIN toolLog : toolLog[k].name = TIME }

MaxUploads == 2     \* files uploaded

InitFiles ==
    /\ RunUnborn
    /\ LinkIdle
    /\ ConfUnborn
    /\ NormIdle
    /\ SearchIdle
    /\ SessIdle
    /\ SseIdle
    /\ TimeIdle
    /\ MemIdle
    /\ FileIdle

FilesFrame ==
    UNCHANGED << runVars, linkVars, confVars, normVars, searchVars, sessVars,
                 sseVars, timeVars, memVars >>

\* upload_file(file): the file is written to temp_uploads and entered in
\* the cache under a new id.
Upload(filename) ==
    /\ issued < MaxUploads
    /\ LET file_id == issued + 1
       IN  /\ disk' = disk \cup {file_id}
           /\ upload_cache' = [f \in DOMAIN upload_cache \cup {file_id} |->
                                 IF f = file_id THEN filename
                                 ELSE upload_cache[f]]
           /\ issued' = file_id
    /\ UNCHANGED procs
    /\ FilesFrame

\* process_stream(file_id) up to its return: 404, or the entry is popped
\* and the streaming response around gen is returned.
Process(p, file_id) ==
    /\ procs[p].pc = "idle"
    /\ IF file_id \notin DOMAIN upload_cache
       THEN /\ procs' = [procs EXCEPT ![p] =
                           [NoProc EXCEPT !.pc = "not_found",
                                          !.file_id = file_id]]
            /\ UNCHANGED upload_cache
       ELSE /\ procs' = [procs EXCEPT ![p] =
                           [NoProc EXCEPT !.pc = "response",
                                          !.file_id = file_id,
                                          !.filename = upload_cache[file_id]]]
            /\ upload_cache' = Pop(upload_cache, file_id)
    /\ UNCHANGED << disk, issued >>
    /\ FilesFrame

\* The response asks gen for its next frame: gen runs to its next yield,
\* or to its end through the finally block of file_processor_stream
\* (os.remove of the temporary file).
GenNext(p) ==
    /\ procs[p].pc \in {"response", "streaming"}
    /\ LET to == NextYield(procs[p].at, procs[p].filename)
       IN  IF to = "end"
           THEN /\ procs' = [procs EXCEPT ![p].pc = "closed"]
                /\ disk' = disk \ {procs[p].file_id}
           ELSE /\ procs' = [procs EXCEPT
                               ![p].pc = "streaming",
                               ![p].at = to,
                               ![p].events = Append(@, EventAt(to))]
                /\ UNCHANGED disk
    /\ UNCHANGED << upload_cache, issued >>
    /\ FilesFrame

\* The client goes away: the response is cancelled.  If gen has called
\* file_processor_stream, that generator is unwound (CancelledError at its
\* await, or GeneratorExit at its yield) and its finally block runs.
Hangup(p) ==
    /\ procs[p].pc \in {"response", "streaming"}
    /\ procs' = [procs EXCEPT ![p].pc = "cancelled"]
    /\ disk' = IF InProcessor(procs[p].at) THEN disk \ {procs[p].file_id}
               ELSE disk
    /\ UNCHANGED << upload_cache, issued >>
    /\ FilesFrame

NextFiles ==
    \/ \E filename \in Filenames : Upload(filename)
    \/ \E p \in Clients, file_id \in 1..issued : Process(p, file_id)
    \/ \E p \in Clients : GenNext(p)
    \/ \E p \in Clients : Hangup(p)

SpecFiles == InitFiles /\ [][NextFiles]_vars

\* The process request p got the file out of the cache.
Took(p) == procs[p].pc \in {"response", "streaming", "closed", "cancelled"}

(***************************************************************************)
(* C33: a file id returned by upload starts at most one processing         *)
(* stream: the process request that gets it removes it from the upload     *)
(* cache, and every later process request for the id, also one arriving    *)
(* while the first stream is running, is answered not found and starts no  *)
(* processing.                                                             *)
(***************************************************************************)
C33_OneStreamPerFile ==
    /\ \A p \in Clients :
           Took(p) => procs[p].file_id \notin DOMAIN upload_cache
    /\ \A p, q \in Clients :
           (p # q /\ Took(p) /\ Took(q)) => procs[p].file_id # procs[q].file_id
    /\ \A p \in Clients :
           procs[p].pc = "not_found" =>
               /\ procs[p].events = << >>
               /\ procs[p].file_id \notin DOMAIN upload_cache
    /\ \A p \in Clients : procs[p].events # << >> => Took(p)

\* A second request for the id of a stream that is still running was
\* answered not found.
C33_Witness ==
    \E p, q \in Clients :
        /\ procs[p].pc = "streaming" /\ procs[p].at = "identifying"
        /\ procs[q].pc = "not_found"
        /\ procs[q].file_id = procs[p].file_id

\* The stream of process request p has been consumed to its end.
Consumed(p) == procs[p].pc = "closed"

Terminal(event) == event.step \in {"completed", "error"}

\* The events end with the one terminal event they hold, completed with
\* progress 100 or error, and up to completed progress never decreases.
EndsWithOneTerminal(evs) ==
    /\ evs # << >>
    /\ Terminal(evs[Len(evs)])
    /\ \A i \in 1..(Len(evs) - 1) : ~Terminal(evs[i])
    /\ evs[Len(evs)].step = "completed" =>
           /\ evs[Len(evs)].progress = 100
           /\ \A i, j \in DOMAIN evs :
                  i < j => evs[i].progress <= evs[j].progress

\* C34 as stated: the first event of a consumed stream is start.
C34_StartFirstThenOneTerminal ==
    \A p \in Clients :
        Consumed(p) =>
            /\ procs[p].events[1].step = "start"
            /\ EndsWithOneTerminal(procs[p].events)

(***************************************************************************)
(* C34: every file-processing stream that is consumed to its end emits     *)
(* connected and then start first and ends with exactly one terminal       *)
(* event, completed (progress 100) or error; in no stream does an event    *)
(* follow a terminal event, so completed never comes after error, and up   *)
(* to completed the progress values never decrease.                        *)
(***************************************************************************)
C34_ConnectedStartThenOneTerminal ==
    \A p \in Clients :
        /\ Consumed(p) =>
               /\ Len(procs[p].events) >= 3
               /\ procs[p].events[1].step = "connected"
               /\ procs[p].events[2].step = "start"
               /\ EndsWithOneTerminal(procs[p].events)
        /\ \A i \in 1..(Len(procs[p].events) - 1) :
               ~Terminal(procs[p].events[i])

\* The stream of a PDF has been consumed: six events, the last completed.
C34_Witness ==
    \E p \in Clients :
        /\ Consumed(p)
        /\ Len(procs[p].events) = 6
        /\ procs[p].events[6] = Event("completed", 100)

(***************************************************************************)
(* C35: once a process request has taken a file id out of the upload       *)
(* cache, the temporary file is deleted however the stream ends: when the  *)
(* stream is over, consumed to its end or cut by the client before or      *)
(* during the stream, the file is not on disk any more.                    *)
(***************************************************************************)
C35_TempFileDeleted ==
    \A p \in Clients :
        procs[p].pc \in {"closed", "cancelled"} => procs[p].file_id \notin disk

(***************************************************************************)
(* The run under a server that keeps asking gen for the next frame: a      *)
(* step that can be taken is taken.  Every model stream is finite (the     *)
(* chunks of a run are bounded) and a tool call is one step that returns   *)
(* or raises.                                                              *)
(***************************************************************************)
SpecLive == Spec /\ WF_vars(Next)

(***************************************************************************)
(* C36: every run terminates: provided each model stream is finite and     *)
(* each tool invocation returns or raises, the stream of the request       *)
(* eventually ends with done or error, for every max_iterations >= 0 and   *)
(* every pattern of tool requests by the model.                            *)
(***************************************************************************)
C36_RunTerminates ==
    <>(pc = "closed" /\ (LastIs("done") \/ LastIs("error")))

\* A run that went through every permitted phase with tool calls has
\* ended with done.
C36_Witness ==
    /\ pc = "closed"
    /\ max_iterations = MaxIter
    /\ invocations = MaxIter
    /\ toolLog # << >>
    /\ LastIs("done")

\* The latest model stream ended (it did not raise) without a single chunk:
\* final_chunk is still None after the stream loop.
EndedWithoutChunk ==
    /\ invocations > 0
    /\ ~streamOpen
    /\ final_chunk.isNone
    /\ raised # "ModelError"

(***************************************************************************)
(* C37: a model stream that ends without having produced a single chunk    *)
(* is treated as a response with no text and no tool calls: the run emits  *)
(* no delta for that phase and ends with done, not with error.             *)
(***************************************************************************)
C37_EmptyStreamEndsWithDone ==
    (pc = "closed" /\ EndedWithoutChunk) =>
        /\ PhaseText = ""
        /\ LastIs("done")
        /\ Count("error") = 0

\* number of warning deltas in the stream so far
Warnings ==
    Cardinality({ i \in 1..Len(events) :
                    events[i].data = [type |-> "delta", content |-> Warning] })

\* The latest Generating phase is the max_iterations-th one, its stream has
\* ended with tool calls, and all of them have been dispatched.
CapPhaseEndedWithToolCalls ==
    /\ invocations = max_iterations
    /\ ~streamOpen
    /\ ~final_chunk.isNone
    /\ Response.tool_calls # << >>
    /\ tc_index = Len(Response.tool_calls) + 1

(***************************************************************************)
(* C38: the iteration-cap warning delta is emitted at most once per run    *)
(* and only when the max_iterations-th Generating phase ended with tool    *)
(* calls; a run in which the model gives a response without tool calls in  *)
(* phase n <= max_iterations emits no warning, also when n is              *)
(* max_iterations.                                                         *)
(***************************************************************************)
C38_WarningOnlyAtCap ==
    /\ Warnings <= 1
    /\ Warnings = 1 => CapPhaseEndedWithToolCalls
    /\ (/\ invocations \in 1..max_iterations
        /\ ~streamOpen
        /\ ~final_chunk.isNone
        /\ Response.tool_calls = << >>) => Warnings = 0

\* A run of two permitted phases, both answered with tool calls, has ended
\* with the one warning.
C38_Witness ==
    /\ pc = "closed"
    /\ max_iterations = 2
    /\ invocations = 2
    /\ Warnings = 1

\* The last permitted phase gave a response without tool calls.
C38_NoWarningAtLastPhase ==
    /\ pc = "closed"
    /\ max_iterations > 1
    /\ invocations = max_iterations
    /\ Response.tool_calls = << >>
    /\ raised = "none"
    /\ Warnings = 0

\* positions of the terminal frames in the stream
TerminalFrames == { i \in 1..Len(events) : Type(i) \in {"done", "error"} }

(***************************************************************************)
(* C39: every chat stream that is not cut by a client disconnect ends      *)
(* with exactly one terminal frame, done or error and never both, and no   *)
(* frame of any type follows the terminal frame.                           *)
(***************************************************************************)
C39_OneTerminalFrameLast ==
    /\ Cardinality(TerminalFrames) <= 1
    /\ TerminalFrames \subseteq {Len(events)}
    /\ TerminalFrames # {} => pc = "closed"
    /\ (connected /\ pc = "closed") => Cardinality(TerminalFrames) = 1

\* A stream the client read to its end: deltas and tool calls of two
\* phases, then the one terminal frame.
C39_Witness ==
    /\ connected
    /\ pc = "closed"
    /\ invocations >= 2
    /\ Count("delta") >= 2
    /\ Cardinality(TerminalFrames) = 1
    /\ TerminalFrames = {Len(events)}
====
